---- MODULE Spec2Model ----
(***************************************************************************)
(* Link lifecycle and admission control of the Neuron newsletter           *)
(* automation: the LinkManager store (links, newsletter_runs,              *)
(* link_appearances), the analyzer, the recorder and the blacklist         *)
(* operations, as a state machine over calendar days.                      *)
(***************************************************************************)
EXTENDS Integers, Sequences, FiniteSets, TLC

VARIABLES today, config, links, runs, apps, seq, last, backups, proc

vars == <<today, config, links, runs, apps, seq, last, backups, proc>>

store == <<links, runs, apps, seq>>

\* the snapshot files of the rewind tool and the calls in progress
tools == <<backups, proc>>

----------------------------------------------------------------------------
(* Bounds of the model *)

\* last calendar day of a behaviour (days are 0..MaxDay)
MaxDay == 1
\* longest URL list handed to analyze / record / process
MaxLen == 2
\* number of newsletter_runs rows ever inserted
MaxRuns == 2
\* number of snapshot files ever written
MaxBackups == 1

----------------------------------------------------------------------------
(* URLs.  A URL string is modelled by its parts: caps says the text is      *)
(* written in upper case, pad that it carries surrounding whitespace.       *)

UrlOf(s, h, p, q, f, c, w) ==
    [scheme |-> s, host |-> h, path |-> p, query |-> q, frag |-> f,
     caps |-> c, pad |-> w]

Url(h, p, q, f, c, w) == UrlOf("http", h, p, q, f, c, w)

U_a      == Url("a.com", <<"x">>, "", "", FALSE, FALSE)
U_a2     == Url("a.com", <<"x">>, "", "top", TRUE, TRUE)
U_r      == Url("bad.com", <<"ads", "y">>, "", "", FALSE, FALSE)
U_mal    == Url("[bad", <<"ads", "y">>, "", "", FALSE, FALSE)

URLS == {U_a, U_a2, U_r, U_mal}

RECURSIVE SeqsUpTo(_, _)
SeqsUpTo(S, n) ==
    IF n = 0 THEN {<<>>}
    ELSE LET shorter == SeqsUpTo(S, n - 1)
         IN  shorter \cup {Append(s, x) : s \in {t \in shorter : Len(t) = n - 1}, x \in S}

Batches == SeqsUpTo(URLS, MaxLen)

Range(s) == {s[i] : i \in 1..Len(s)}

\* str.lower() and str.strip()
Lower(u) == [u EXCEPT !.caps = FALSE]
Strip(u) == [u EXCEPT !.pad = FALSE]

\* urlparse raises ValueError ("Invalid IPv6 URL") on an unbalanced bracket
\* in the network location
ParseFails(u) == u.host = "[bad"

\* _hash_url raises when urlparse does
HashFails(u) == ParseFails(Lower(Strip(u)))

\* hash_url, had _hash_url hashed the input as it is written
hash_urlRaw(u) ==
    [scheme |-> u.scheme, host |-> u.host, path |-> u.path, query |-> u.query,
     frag |-> u.frag, caps |-> u.caps, pad |-> u.pad]

\* hash_url, had _hash_url left the query out of the normalized string
hash_urlNoQuery(u) ==
    [scheme |-> u.scheme, host |-> u.host, path |-> u.path, query |-> ""]

\* _hash_url: scheme://netloc/path[?query] of the lowered, stripped input;
\* the fragment is dropped; md5 is injective on the normalized strings
hash_url(u) ==
    LET parsed == Lower(Strip(u))
    IN  [scheme |-> parsed.scheme, host |-> parsed.host, path |-> parsed.path,
         query |-> parsed.query]

\* _extract_domain: the lowered netloc, "unknown" when urlparse raises
extract_domain(u) == IF ParseFails(u) THEN "unknown" ELSE u.host

\* fnmatch.fnmatch(url.lower(), pattern.lower()) for a pattern "*/seg/*":
\* the lowered text contains "/seg/"
GlobMatches(u, segname) ==
    \/ (Lower(u).host = segname /\ Len(u.path) >= 1)
    \/ \E i \in 1..(Len(u.path) - 1) : Lower(u).path[i] = segname

----------------------------------------------------------------------------
(* Configuration *)

NullDate == -1
NullReason == "NULL"
None == "None"

Cfg(en, days, recent, domains, patterns) ==
    [present |-> TRUE,
     AUTO_BLACKLIST_ENABLED |-> en,
     AUTO_BLACKLIST_DAYS |-> days,
     RECENT_LINK_DAYS |-> recent,
     DOMAIN_BLACKLIST |-> domains,
     URL_PATTERN_BLACKLIST |-> patterns]

Configs == {Cfg(TRUE, 0, 0, {}, {"ads"}), Cfg(FALSE, 0, 1, {"bad.com"}, {})}

\* LinkManager(path) without config: self.config is None and every getattr
\* yields its default
NoConfig ==
    [present |-> FALSE,
     AUTO_BLACKLIST_ENABLED |-> FALSE,
     AUTO_BLACKLIST_DAYS |-> 30,
     RECENT_LINK_DAYS |-> 3,
     DOMAIN_BLACKLIST |-> {},
     URL_PATTERN_BLACKLIST |-> {}]

\* _should_auto_blacklist_url
should_auto_blacklist_url(u, cfg) ==
    IF ~cfg.present THEN None
    ELSE IF extract_domain(u) \in cfg.DOMAIN_BLACKLIST THEN "domain_blacklisted"
    ELSE IF \E p \in cfg.URL_PATTERN_BLACKLIST : GlobMatches(u, p)
         THEN "pattern_match"
    ELSE None

----------------------------------------------------------------------------
(* Store helpers *)

LinkRow(id, u, d) ==
    [id |-> id, url |-> u, url_hash |-> hash_url(u), domain |-> extract_domain(u),
     first_seen |-> d, last_seen |-> d, seen_count |-> 1,
     is_blacklisted |-> FALSE, blacklisted_date |-> NullDate,
     blacklist_reason |-> NullReason]

\* SELECT ... FROM links WHERE url_hash = ?
LinksByHash(L, h) == {l \in L : l.url_hash = h}

\* cursor.fetchone() of that query
FetchOne(rows) == CHOOSE l \in rows : \A m \in rows : l.id <= m.id

\* InsertOrIgnoreAppearance, had the table no UNIQUE(link_id, run_id)
InsertAppearance(A, link_id, run_id, position) ==
    A \cup {[link_id |-> link_id, run_id |-> run_id, position |-> position]}

\* INSERT OR IGNORE INTO link_appearances under UNIQUE(link_id, run_id)
InsertOrIgnoreAppearance(A, link_id, run_id, position) ==
    IF \E a \in A : a.link_id = link_id /\ a.run_id = run_id
    THEN A
    ELSE A \cup {[link_id |-> link_id, run_id |-> run_id, position |-> position]}

----------------------------------------------------------------------------
(* Auto-Ager *)

\* auto_blacklist_old_links, had the UPDATE compared last_seen <= cutoff
auto_blacklist_old_linksInclusive(L, cfg, d) ==
    IF ~cfg.present \/ ~cfg.AUTO_BLACKLIST_ENABLED THEN L
    ELSE {IF l.last_seen <= d - cfg.AUTO_BLACKLIST_DAYS /\ ~l.is_blacklisted
          THEN [l EXCEPT !.is_blacklisted = TRUE, !.blacklisted_date = d,
                         !.blacklist_reason = "auto_aged"]
          ELSE l : l \in L}

\* _auto_blacklist_old_links: the UPDATE
auto_blacklist_old_links(L, cfg, d) ==
    IF ~cfg.present \/ ~cfg.AUTO_BLACKLIST_ENABLED THEN L
    ELSE {IF l.last_seen < d - cfg.AUTO_BLACKLIST_DAYS /\ ~l.is_blacklisted
          THEN [l EXCEPT !.is_blacklisted = TRUE, !.blacklisted_date = d,
                         !.blacklist_reason = "auto_aged"]
          ELSE l : l \in L}

\* auto_blacklist_count, had the UPDATE not asked for is_blacklisted = FALSE
auto_blacklist_countAll(L, cfg, d) ==
    IF ~cfg.present \/ ~cfg.AUTO_BLACKLIST_ENABLED THEN 0
    ELSE Cardinality({l \in L : l.last_seen < d - cfg.AUTO_BLACKLIST_DAYS})

\* _auto_blacklist_old_links: cursor.rowcount
auto_blacklist_count(L, cfg, d) ==
    IF ~cfg.present \/ ~cfg.AUTO_BLACKLIST_ENABLED THEN 0
    ELSE Cardinality({l \in L : l.last_seen < d - cfg.AUTO_BLACKLIST_DAYS
                                 /\ ~l.is_blacklisted})

\* the sweep is enabled in the configuration of the process
AgerOn == config.present /\ config.AUTO_BLACKLIST_ENABLED

\* the Links the sweep of today is to blacklist
Aged(L) == {l \in L : ~l.is_blacklisted
                      /\ l.last_seen < today - config.AUTO_BLACKLIST_DAYS}

----------------------------------------------------------------------------
(* Admission Analyzer *)

EmptyResult(n) ==
    [new_links |-> <<>>, existing_links |-> <<>>, blacklisted_links |-> <<>>,
     links_to_open |-> <<>>,
     statistics |-> [total_links |-> n, new_count |-> 0, existing_count |-> 0,
                     blacklisted_count |-> 0]]

AddNew(r, u) ==
    [r EXCEPT !.new_links = Append(@, u), !.statistics.new_count = @ + 1,
              !.links_to_open = Append(@, u)]

\* AddExisting, had it left the URL off links_to_open
AddExistingNoOpen(r, u) ==
    [r EXCEPT !.existing_links = Append(@, u), !.statistics.existing_count = @ + 1]

AddExisting(r, u) ==
    [r EXCEPT !.existing_links = Append(@, u), !.statistics.existing_count = @ + 1,
              !.links_to_open = Append(@, u)]

AddBlocked(r, u) ==
    [r EXCEPT !.blacklisted_links = Append(@, u),
              !.statistics.blacklisted_count = @ + 1]

\* ClassifyRecent, had the comparison been strict
ClassifyRecentStrict(r, u, link, cfg, d) ==
    IF d - link.last_seen < cfg.RECENT_LINK_DAYS
    THEN AddBlocked(r, u)
    ELSE AddExisting(r, u)

\* the classification of an existing, not blacklisted link by its last_seen
ClassifyRecent(r, u, link, cfg, d) ==
    IF d - link.last_seen <= cfg.RECENT_LINK_DAYS
    THEN AddBlocked(r, u)
    ELSE AddExisting(r, u)

\* the body of the loop of analyze_newsletter_links
AnalyzeOne(r, u, L, cfg, d) ==
    IF HashFails(u) THEN r
    ELSE IF should_auto_blacklist_url(u, cfg) # None THEN AddBlocked(r, u)
    ELSE LET existing == LinksByHash(L, hash_url(u))
         IN  IF existing # {}
             THEN IF FetchOne(existing).is_blacklisted
                  THEN AddBlocked(r, u)
                  ELSE ClassifyRecent(r, u, FetchOne(existing), cfg, d)
             ELSE AddNew(r, u)

RECURSIVE AnalyzeLoop(_, _, _, _, _, _)
AnalyzeLoop(r, urls, i, L, cfg, d) ==
    IF i > Len(urls) THEN r
    ELSE AnalyzeLoop(AnalyzeOne(r, urls[i], L, cfg, d), urls, i + 1, L, cfg, d)

analyze_newsletter_links(urls, L, cfg, d) ==
    AnalyzeLoop(EmptyResult(Len(urls)), urls, 1, L, cfg, d)

\* AnalyzeWrites, had the analyzer kept the UPDATE of process_newsletter_links
AnalyzeWritesTouch(L, urls, d) ==
    {IF \E i \in 1..Len(urls) : ~HashFails(urls[i]) /\ hash_url(urls[i]) = l.url_hash
     THEN [l EXCEPT !.last_seen = d, !.seen_count = @ + 1]
     ELSE l : l \in L}

\* the links table after the statements analyze_newsletter_links executes:
\* it issues SELECTs only
AnalyzeWrites(L, urls, d) == L

----------------------------------------------------------------------------
(* Run Recorder *)

RunRow(id, d, found, opened) ==
    [id |-> id, run_date |-> d, links_found |-> found, new_links |-> 0,
     existing_links |-> 0, blacklisted_links |-> 0, opened_links |-> opened,
     success |-> TRUE]

\* UpdateSeen, had the UPDATE been seen_count - 1
UpdateSeenDecrement(L, link_id, d) ==
    {IF l.id = link_id THEN [l EXCEPT !.last_seen = d, !.seen_count = @ - 1] ELSE l :
        l \in L}

\* UpdateSeen, had the UPDATE left seen_count alone
UpdateSeenNoCount(L, link_id, d) ==
    {IF l.id = link_id THEN [l EXCEPT !.last_seen = d] ELSE l : l \in L}

\* UpdateSeen, had the UPDATE also reset the blacklist columns
UpdateSeenClear(L, link_id, d) ==
    {IF l.id = link_id
     THEN [l EXCEPT !.last_seen = d, !.seen_count = @ + 1,
                    !.is_blacklisted = FALSE, !.blacklisted_date = NullDate,
                    !.blacklist_reason = NullReason]
     ELSE l : l \in L}

\* UPDATE links SET last_seen = ?, seen_count = seen_count + 1 WHERE id = ?
UpdateSeen(L, link_id, d) ==
    {IF l.id = link_id
     THEN [l EXCEPT !.last_seen = d, !.seen_count = @ + 1]
     ELSE l : l \in L}

\* INSERT INTO links (url, domain, first_seen, last_seen, url_hash)
InsertLink(L, link_id, u, d) == L \cup {LinkRow(link_id, u, d)}

\* the body of the loop of record_opened_links; S is the transaction's view
\* of the store and the running recorded_count.  A URL whose hash raises is
\* caught by the except clause before any statement ran.
RecordOne(S, u, pos, run_id, d) ==
    IF HashFails(u) THEN S
    ELSE LET existing == LinksByHash(S.links, hash_url(u))
             link_id  == IF existing # {} THEN FetchOne(existing).id ELSE S.seq + 1
         IN  [links |-> IF existing # {}
                        THEN UpdateSeen(S.links, link_id, d)
                        ELSE InsertLink(S.links, link_id, u, d),
              seq   |-> IF existing # {} THEN S.seq ELSE S.seq + 1,
              apps  |-> InsertOrIgnoreAppearance(S.apps, link_id, run_id, pos),
              count |-> S.count + 1]

\* RecordLoop, had a failing URL ended the loop
RECURSIVE RecordLoopAbort(_, _, _, _, _)
RecordLoopAbort(S, urls, pos, run_id, d) ==
    IF pos > Len(urls) \/ HashFails(urls[pos]) THEN S
    ELSE RecordLoopAbort(RecordOne(S, urls[pos], pos, run_id, d), urls, pos + 1,
                         run_id, d)

RECURSIVE RecordLoop(_, _, _, _, _)
RecordLoop(S, urls, pos, run_id, d) ==
    IF pos > Len(urls) THEN S
    ELSE RecordLoop(RecordOne(S, urls[pos], pos, run_id, d), urls, pos + 1, run_id, d)

\* record_opened_links on a non-empty list: the sweep, then the transaction
\* that inserts the run and loops over the URLs
record_opened_links(urls, L, A, lseq, run_id, cfg, d) ==
    RecordLoop([links |-> auto_blacklist_old_links(L, cfg, d), seq |-> lseq,
                apps |-> A, count |-> 0],
               urls, 1, run_id, d)

----------------------------------------------------------------------------
(* process_newsletter_links *)

ProcEmptyResult(n) ==
    [new_links |-> <<>>, existing_links |-> <<>>, blacklisted_links |-> <<>>,
     links_to_open |-> <<>>,
     statistics |-> [total_links |-> n, new_count |-> 0, existing_count |-> 0,
                     blacklisted_count |-> 0, opened_count |-> 0]]

\* an existing, not blacklisted link is counted but not put on links_to_open
ProcAddExisting(r, u) ==
    [r EXCEPT !.existing_links = Append(@, u), !.statistics.existing_count = @ + 1]

\* INSERT INTO links (..., is_blacklisted, blacklisted_date, blacklist_reason)
InsertLinkRuled(L, link_id, u, d, reason) ==
    L \cup {[LinkRow(link_id, u, d) EXCEPT
                !.is_blacklisted = (reason # None),
                !.blacklisted_date = IF reason # None THEN d ELSE NullDate,
                !.blacklist_reason = IF reason # None THEN reason ELSE NullReason]}

\* the body of the loop of process_newsletter_links
ProcessOne(S, u, pos, run_id, cfg, d) ==
    IF HashFails(u) THEN S
    ELSE LET reason   == should_auto_blacklist_url(u, cfg)
             existing == LinksByHash(S.links, hash_url(u))
             link_id  == IF existing # {} THEN FetchOne(existing).id ELSE S.seq + 1
         IN  [links |-> IF existing # {}
                        THEN UpdateSeen(S.links, link_id, d)
                        ELSE InsertLinkRuled(S.links, link_id, u, d, reason),
              seq   |-> IF existing # {} THEN S.seq ELSE S.seq + 1,
              apps  |-> InsertOrIgnoreAppearance(S.apps, link_id, run_id, pos),
              res   |-> IF existing # {}
                        THEN IF FetchOne(existing).is_blacklisted
                             THEN AddBlocked(S.res, u)
                             ELSE ProcAddExisting(S.res, u)
                        ELSE IF reason # None
                             THEN AddBlocked(S.res, u)
                             ELSE AddNew(S.res, u)]

RECURSIVE ProcessLoop(_, _, _, _, _, _)
ProcessLoop(S, urls, pos, run_id, cfg, d) ==
    IF pos > Len(urls) THEN S
    ELSE ProcessLoop(ProcessOne(S, urls[pos], pos, run_id, cfg, d),
                     urls, pos + 1, run_id, cfg, d)

process_newsletter_links(urls, L, A, lseq, run_id, cfg, d) ==
    ProcessLoop([links |-> auto_blacklist_old_links(L, cfg, d), seq |-> lseq,
                 apps |-> A, res |-> ProcEmptyResult(Len(urls))],
                urls, 1, run_id, cfg, d)

\* UPDATE newsletter_runs SET new_links = ?, ... WHERE id = ?
ProcRunRow(run_id, d, n, res) ==
    [RunRow(run_id, d, n, 0) EXCEPT
        !.new_links = res.statistics.new_count,
        !.existing_links = res.statistics.existing_count,
        !.blacklisted_links = res.statistics.blacklisted_count,
        !.opened_links = Len(res.links_to_open)]

----------------------------------------------------------------------------
(* Blacklist Manager *)

Reasons == {"manual"}

\* blacklist_url, had the UPDATE set last_seen as well
blacklist_urlTouch(L, u, reason, d) ==
    {IF l.url_hash = hash_url(u)
     THEN [l EXCEPT !.is_blacklisted = TRUE, !.blacklisted_date = d,
                    !.blacklist_reason = reason, !.last_seen = d]
     ELSE l : l \in L}

\* blacklist_url: the UPDATE
blacklist_url(L, u, reason, d) ==
    {IF l.url_hash = hash_url(u)
     THEN [l EXCEPT !.is_blacklisted = TRUE, !.blacklisted_date = d,
                    !.blacklist_reason = reason]
     ELSE l : l \in L}

\* unblacklist_url: the UPDATE
unblacklist_url(L, u) ==
    {IF l.url_hash = hash_url(u)
     THEN [l EXCEPT !.is_blacklisted = FALSE, !.blacklisted_date = NullDate,
                    !.blacklist_reason = NullReason]
     ELSE l : l \in L}

\* cursor.rowcount > 0 of either UPDATE
RowFound(L, u) == LinksByHash(L, hash_url(u)) # {}

----------------------------------------------------------------------------
(* Retention *)

KeepDays == {0}

\* cleanup_old_data: DELETE FROM newsletter_runs WHERE run_date < today - keep
cleanup_old_data(R, keep, d) == {r \in R : ~(r.run_date < d - keep)}

----------------------------------------------------------------------------
(* Rewind Engine (blacklist_rewind.py).  Dates are stored as ISO strings,   *)
(* which compare as the day numbers do; a NULL date satisfies no comparison. *)

\* the days argument of preview_rewind / perform_rewind
RewindDays == 0..MaxDay

\* RewindSelected, had the query compared blacklisted_date > cutoff
RewindSelectedStrict(L, days, d) ==
    {l \in L : /\ l.is_blacklisted
               /\ l.blacklisted_date # NullDate
               /\ l.blacklisted_date > d - days}

\* WHERE is_blacklisted = TRUE AND blacklisted_date >= cutoff
RewindSelected(L, days, d) ==
    {l \in L : /\ l.is_blacklisted
               /\ l.blacklisted_date # NullDate
               /\ l.blacklisted_date >= d - days}

\* row[2] or 'not specified'
ReasonOrDefault(reason) == IF reason = NullReason \/ reason = "" THEN "not specified"
                           ELSE reason

\* the counting loops of preview_rewind
CountBy(cands, field) ==
    [k \in {c[field] : c \in cands} |-> Cardinality({c \in cands : c[field] = k})]

\* preview_rewind: the candidates in the order of the query
\* (blacklisted_date DESC) are kept as a set
preview_rewind(L, days, d) ==
    LET restore_candidates ==
            {[url |-> l.url, blacklisted_date |-> l.blacklisted_date,
              reason |-> ReasonOrDefault(l.blacklist_reason),
              domain |-> l.domain, seen_count |-> l.seen_count] :
                l \in RewindSelected(L, days, d)}
    IN  [cutoff_date |-> d - days,
         days_back |-> days,
         links_to_restore |-> restore_candidates,
         restore_count |-> Cardinality(restore_candidates),
         reason_breakdown |-> CountBy(restore_candidates, "reason"),
         domain_breakdown |-> CountBy(restore_candidates, "domain")]

\* cursor.fetchall() of a query without ORDER BY: the rows by rowid
RECURSIVE RowsById(_)
RowsById(rows) ==
    IF rows = {} THEN <<>>
    ELSE LET first == CHOOSE l \in rows : \A k \in rows : l.id <= k.id
         IN  <<first>> \o RowsById(rows \ {first})

\* one element of blacklisted_links.  Of the eight columns written per link
\* the three that restore_from_backup reads are kept.
BackupEntry(url_hash, blacklisted_date, blacklist_reason) ==
    [url_hash |-> url_hash, blacklisted_date |-> blacklisted_date,
     blacklist_reason |-> blacklist_reason]

\* create_backup: the file content
create_backup(L) ==
    LET rows == RowsById({k \in L : k.is_blacklisted})
        blacklist_data ==
            [i \in 1..Len(rows) |->
                BackupEntry(rows[i].url_hash, rows[i].blacklisted_date,
                            rows[i].blacklist_reason)]
    IN  [total_blacklisted |-> Len(blacklist_data),
         blacklisted_links |-> blacklist_data]

\* the file named by the timestamp: a backup written in the same second as
\* the newest file has its name and replaces it
WriteBackup(B, snap, d, same_second) ==
    IF same_second /\ B # <<>> /\ B[Len(B)].day = d
    THEN [B EXCEPT ![Len(B)] = [day |-> d, content |-> snap]]
    ELSE Append(B, [day |-> d, content |-> snap])

\* perform_rewind, had the UPDATE left blacklist_reason alone
perform_rewindKeepReason(L, days, d) ==
    {IF l.is_blacklisted /\ l.blacklisted_date # NullDate
        /\ l.blacklisted_date >= d - days
     THEN [l EXCEPT !.is_blacklisted = FALSE, !.blacklisted_date = NullDate]
     ELSE l : l \in L}

\* perform_rewind, had the UPDATE had no cutoff
perform_rewindAll(L, days, d) ==
    {IF l.is_blacklisted
     THEN [l EXCEPT !.is_blacklisted = FALSE, !.blacklisted_date = NullDate,
                    !.blacklist_reason = NullReason]
     ELSE l : l \in L}

\* perform_rewind, had the UPDATE compared blacklisted_date > cutoff
perform_rewindStrict(L, days, d) ==
    {IF l \in RewindSelectedStrict(L, days, d)
     THEN [l EXCEPT !.is_blacklisted = FALSE, !.blacklisted_date = NullDate,
                    !.blacklist_reason = NullReason]
     ELSE l : l \in L}

\* perform_rewind: the UPDATE
perform_rewind(L, days, d) ==
    {IF l \in RewindSelected(L, days, d)
     THEN [l EXCEPT !.is_blacklisted = FALSE, !.blacklisted_date = NullDate,
                    !.blacklist_reason = NullReason]
     ELSE l : l \in L}

\* RewindSnapshot, had perform_rewind called create_backup after its UPDATE
RewindSnapshotAfter(L, days, d) == create_backup(perform_rewind(L, days, d))

\* perform_rewind, lines 232-233: create_backup() runs before the connection
\* of the UPDATE is opened
RewindSnapshot(L, days, d) == create_backup(L)

\* perform_rewind: cursor.rowcount of the UPDATE (every row it matches
\* changes, from blacklisted to not blacklisted)
rewind_rowcount(L, days, d) ==
    Cardinality({l \in L : l \notin perform_rewind(L, days, d)})

\* perform_rewind: restored_links, from the SELECT before the UPDATE
restored_links(L, days, d) ==
    {[url |-> l.url, blacklisted_date |-> l.blacklisted_date,
      reason |-> l.blacklist_reason] : l \in RewindSelected(L, days, d)}

\* RestoreOne, had the statement also cleared the rows of other hashes
RestoreOneReplace(L, e) ==
    {IF l.url_hash = e.url_hash
     THEN [l EXCEPT !.is_blacklisted = TRUE,
                    !.blacklisted_date = e.blacklisted_date,
                    !.blacklist_reason = e.blacklist_reason]
     ELSE [l EXCEPT !.is_blacklisted = FALSE,
                    !.blacklisted_date = NullDate,
                    !.blacklist_reason = NullReason] : l \in L}

\* RestoreOne, had the UPDATE not set blacklisted_date
RestoreOneKeepDate(L, e) ==
    {IF l.url_hash = e.url_hash
     THEN [l EXCEPT !.is_blacklisted = TRUE,
                    !.blacklist_reason = e.blacklist_reason]
     ELSE l : l \in L}

\* restore_from_backup: the UPDATE of one entry
RestoreOne(L, e) ==
    {IF l.url_hash = e.url_hash
     THEN [l EXCEPT !.is_blacklisted = TRUE,
                    !.blacklisted_date = e.blacklisted_date,
                    !.blacklist_reason = e.blacklist_reason]
     ELSE l : l \in L}

\* a file whose text json.load rejects (JSONDecodeError)
NotJson == [text |-> "not json"]

\* json.load(f) returns
ParsesAsJson(content) == "text" \notin DOMAIN content

\* backup_data.get('blacklisted_links', [])
BlacklistedLinksOf(content) ==
    IF "blacklisted_links" \in DOMAIN content THEN content.blacklisted_links
    ELSE <<>>

\* link_data['url_hash'], link_data['blacklisted_date'] and
\* link_data['blacklist_reason'] raise no KeyError
HasFields(e) == {"url_hash", "blacklisted_date", "blacklist_reason"} \subseteq DOMAIN e

\* RestoreLoop, had restored_count been incremented for every entry
RECURSIVE RestoreLoopCountAll(_, _, _, _)
RestoreLoopCountAll(S, entries, i, L0) ==
    IF i > Len(entries) THEN S
    ELSE IF ~HasFields(entries[i])
         THEN [raised |-> TRUE, links |-> L0, restored_count |-> 0]
    ELSE RestoreLoopCountAll(
             [raised |-> FALSE,
              links |-> RestoreOne(S.links, entries[i]),
              restored_count |-> S.restored_count + 1],
             entries, i + 1, L0)

\* RestoreLoop, had each UPDATE been committed as it ran
RECURSIVE RestoreLoopCommitEach(_, _, _, _)
RestoreLoopCommitEach(S, entries, i, L0) ==
    IF i > Len(entries) THEN S
    ELSE IF ~HasFields(entries[i])
         THEN [raised |-> TRUE, links |-> S.links, restored_count |-> 0]
    ELSE RestoreLoopCommitEach(
             [raised |-> FALSE,
              links |-> RestoreOne(S.links, entries[i]),
              restored_count |->
                  IF LinksByHash(S.links, entries[i].url_hash) # {}
                  THEN S.restored_count + 1 ELSE S.restored_count],
             entries, i + 1, L0)

\* restore_from_backup: the loop over the entries in the order of the file,
\* inside one transaction on the links L0.  A KeyError leaves the with block
\* of the connection, which rolls the transaction back.
RECURSIVE RestoreLoop(_, _, _, _)
RestoreLoop(S, entries, i, L0) ==
    IF i > Len(entries) THEN S
    ELSE IF ~HasFields(entries[i])
         THEN [raised |-> TRUE, links |-> L0, restored_count |-> 0]
    ELSE RestoreLoop(
             [raised |-> FALSE,
              links |-> RestoreOne(S.links, entries[i]),
              restored_count |->
                  IF LinksByHash(S.links, entries[i].url_hash) # {}
                  THEN S.restored_count + 1 ELSE S.restored_count],
             entries, i + 1, L0)

\* restore_from_backup of an existing file: json.load, then the loop
RestoreOutcome(L, content) ==
    IF ~ParsesAsJson(content)
    THEN [raised |-> TRUE, links |-> L, restored_count |-> 0]
    ELSE RestoreLoop([raised |-> FALSE, links |-> L, restored_count |-> 0],
                     BlacklistedLinksOf(content), 1, L)

\* restore_from_backup: the links table after the call
restore_from_backup(L, snap) == RestoreOutcome(L, snap).links

\* restore_from_backup: restored_count (entries whose UPDATE found a row)
restored_count(L, snap) == RestoreOutcome(L, snap).restored_count

\* backup_file of a rewind without backup (None)
NoFile == 0

\* PreviewWrites, had preview_rewind run the UPDATE of perform_rewind
PreviewWritesClear(L, days, d) == perform_rewind(L, days, d)

\* preview_rewind: the statements it executes are one SELECT
PreviewWrites(L, days, d) == L

----------------------------------------------------------------------------
(* Calls in progress.  A call that runs as one transaction is one action;   *)
(* a record call of a process that runs beside another one is followed      *)
(* statement by statement.                                                  *)

Procs == {1, 2}

Idle == [pc |-> "idle"]

----------------------------------------------------------------------------
(* Actions *)

Init ==
    /\ today = 0
    /\ config \in Configs
    /\ links = {}
    /\ runs = {}
    /\ apps = {}
    /\ seq = [links |-> 0, runs |-> 0]
    /\ last = [op |-> "init"]
    /\ backups = <<>>
    /\ proc = [p \in Procs |-> Idle]

AdvanceDay ==
    /\ today < MaxDay
    /\ today' = today + 1
    /\ last' = [op |-> "tick"]
    /\ UNCHANGED <<config, links, runs, apps, seq>>
    /\ UNCHANGED tools

Analyze ==
    \E urls \in Batches :
        /\ last' = [op |-> "analyze"]
        /\ links' = AnalyzeWrites(links, urls, today)
        /\ UNCHANGED <<today, config, runs, apps, seq>>
        /\ UNCHANGED tools

\* record_opened_links(urls): the database and the returned value
RecordStore(urls) ==
    IF urls = <<>>
    THEN /\ last' = [op |-> "record", urls |-> urls,
                     res |-> [recorded_count |-> 0]]
         /\ UNCHANGED <<today, config, links, runs, apps, seq>>
    ELSE /\ seq.runs < MaxRuns
         /\ LET run_id == seq.runs + 1
                S == record_opened_links(urls, links, apps, seq.links, run_id,
                                         config, today)
            IN  /\ links' = S.links
                /\ apps' = S.apps
                /\ runs' = runs \cup {RunRow(run_id, today, Len(urls), Len(urls))}
                /\ seq' = [links |-> S.seq, runs |-> run_id]
                /\ last' = [op |-> "record", urls |-> urls, run_id |-> run_id,
                            res |-> [recorded_count |-> S.count,
                                     auto_blacklisted_aged |->
                                        auto_blacklist_count(links, config, today)]]
         /\ UNCHANGED <<today, config>>

\* record_opened_links(urls)
RecordOf(urls) ==
    /\ RecordStore(urls)
    /\ UNCHANGED tools

Record == \E urls \in Batches : RecordOf(urls)

\* lists as the automation hands them to record: not empty, and of URLs
\* whose hash analyze could compute
OpenedBatches == {<<U_a>>, <<U_r>>, <<U_a, U_r>>}

RecordOpened == \E urls \in OpenedBatches : RecordOf(urls)

Process ==
    \E urls \in Batches :
        IF urls = <<>>
        THEN /\ last' = [op |-> "process", urls |-> urls, res |-> ProcEmptyResult(0)]
             /\ UNCHANGED <<today, config, links, runs, apps, seq>>
             /\ UNCHANGED tools
        ELSE /\ seq.runs < MaxRuns
             /\ LET run_id == seq.runs + 1
                    S == process_newsletter_links(urls, links, apps, seq.links, run_id,
                                                  config, today)
                IN  /\ links' = S.links
                    /\ apps' = S.apps
                    /\ runs' = runs \cup {ProcRunRow(run_id, today, Len(urls), S.res)}
                    /\ seq' = [links |-> S.seq, runs |-> run_id]
                    /\ last' = [op |-> "process", urls |-> urls, run_id |-> run_id,
                                res |-> [S.res EXCEPT !.statistics.opened_count =
                                                        Len(S.res.links_to_open)]]
             /\ UNCHANGED <<today, config>>
             /\ UNCHANGED tools

Blacklist ==
    \E u \in URLS, reason \in Reasons :
        /\ IF HashFails(u)
           THEN /\ last' = [op |-> "blacklist", url |-> u, raised |-> TRUE]
                /\ UNCHANGED links
           ELSE /\ links' = blacklist_url(links, u, reason, today)
                /\ last' = [op |-> "blacklist", url |-> u, raised |-> FALSE,
                            reason |-> reason, res |-> RowFound(links, u)]
        /\ UNCHANGED <<today, config, runs, apps, seq>>
        /\ UNCHANGED tools

Unblacklist ==
    \E u \in URLS :
        /\ IF HashFails(u)
           THEN /\ last' = [op |-> "unblacklist", url |-> u, raised |-> TRUE]
                /\ UNCHANGED links
           ELSE /\ links' = unblacklist_url(links, u)
                /\ last' = [op |-> "unblacklist", url |-> u, raised |-> FALSE,
                            res |-> RowFound(links, u)]
        /\ UNCHANGED <<today, config, runs, apps, seq>>
        /\ UNCHANGED tools

Cleanup ==
    \E keep \in KeepDays :
        /\ runs' = cleanup_old_data(runs, keep, today)
        /\ last' = [op |-> "cleanup", keep |-> keep,
                    res |-> Cardinality(runs) - Cardinality(runs')]
        /\ UNCHANGED <<today, config, links, apps, seq>>
        /\ UNCHANGED tools

\* _auto_blacklist_old_links called on its own
Sweep ==
    /\ links' = auto_blacklist_old_links(links, config, today)
    /\ last' = [op |-> "sweep", res |-> auto_blacklist_count(links, config, today)]
    /\ UNCHANGED <<today, config, runs, apps, seq>>
    /\ UNCHANGED tools

Preview ==
    \E days \in RewindDays :
        /\ last' = [op |-> "preview", days |-> days,
                    res |-> preview_rewind(links, days, today)]
        /\ links' = PreviewWrites(links, days, today)
        /\ UNCHANGED <<today, config, runs, apps, seq>>
        /\ UNCHANGED tools

Backup ==
    \E same_second \in BOOLEAN :
        /\ backups' = WriteBackup(backups, create_backup(links), today, same_second)
        /\ Len(backups') <= MaxBackups
        /\ last' = [op |-> "backup", file |-> Len(backups')]
        /\ UNCHANGED <<today, config, links, runs, apps, seq, proc>>

Rewind ==
    \E days \in RewindDays, backup \in BOOLEAN, same_second \in BOOLEAN :
        /\ backups' = IF backup
                      THEN WriteBackup(backups, RewindSnapshot(links, days, today),
                                       today, same_second)
                      ELSE backups
        /\ Len(backups') <= MaxBackups
        /\ links' = perform_rewind(links, days, today)
        /\ last' = [op |-> "rewind", days |-> days, with_backup |-> backup,
                    res |-> [success |-> TRUE,
                             cutoff_date |-> today - days,
                             days_rewound |-> days,
                             restored_count |->
                                 rewind_rowcount(links, days, today),
                             restored_links |-> restored_links(links, days, today),
                             backup_file |-> IF backup THEN Len(backups')
                                             ELSE NoFile]]
        /\ UNCHANGED <<today, config, runs, apps, seq, proc>>

\* restore_from_backup of a file of the backups directory, or of a path that
\* does not exist
Restore ==
    \E f \in 1..(Len(backups) + 1) :
        /\ IF f > Len(backups)
           THEN /\ last' = [op |-> "restore", file |-> f, raised |-> TRUE]
                /\ UNCHANGED links
           ELSE /\ links' = restore_from_backup(links, backups[f].content)
                /\ last' = [op |-> "restore", file |-> f, raised |-> FALSE,
                            content |-> backups[f].content,
                            res |-> [success |-> TRUE,
                                     restored_count |->
                                         restored_count(links, backups[f].content),
                                     total_in_backup |->
                                         Len(backups[f].content.blacklisted_links)]]
        /\ UNCHANGED <<today, config, runs, apps, seq>>
        /\ UNCHANGED tools

\* a URL that another database holds and this one never records
U_z == Url("z.com", <<"x">>, "", "", FALSE, FALSE)

\* files given to --restore that create_backup did not write on this
\* database: the snapshot of another database, a file that is not JSON, and
\* snapshots whose second entry lacks a field
OtherFiles ==
    {[total_blacklisted |-> 2,
      blacklisted_links |-> <<BackupEntry(hash_url(U_a), 0, "manual"),
                              BackupEntry(hash_url(U_z), 0, "manual")>>],
     NotJson,
     [total_blacklisted |-> 2,
      blacklisted_links |-> <<BackupEntry(hash_url(U_a), 0, "manual"),
                              [blacklisted_date |-> 0,
                               blacklist_reason |-> "manual"]>>],
     [total_blacklisted |-> 2,
      blacklisted_links |-> <<BackupEntry(hash_url(U_a), 0, "manual"),
                              [url_hash |-> hash_url(U_r),
                               blacklist_reason |-> "manual"]>>],
     [total_blacklisted |-> 2,
      blacklisted_links |-> <<BackupEntry(hash_url(U_r), 0, "manual"),
                              [url_hash |-> hash_url(U_a),
                               blacklisted_date |-> 0]>>]}

\* restore_from_backup of such a file
RestoreFile ==
    \E content \in OtherFiles :
        LET out == RestoreOutcome(links, content)
        IN  /\ links' = out.links
            /\ last' = IF out.raised
                       THEN [op |-> "restore", file |-> NoFile, raised |-> TRUE,
                             content |-> content]
                       ELSE [op |-> "restore", file |-> NoFile, raised |-> FALSE,
                             content |-> content,
                             res |-> [success |-> TRUE,
                                      restored_count |-> out.restored_count,
                                      total_in_backup |->
                                          Len(BlacklistedLinksOf(content))]]
            /\ UNCHANGED <<today, config, runs, apps, seq>>
            /\ UNCHANGED tools

\* the strings given to the normalizer: every combination of scheme, path,
\* query, fragment, letter case and surrounding whitespace on one host
NormUrls ==
    {UrlOf(s, "a.com", p, q, f, c, w) :
        s \in {"http", "https"}, p \in {<<"x">>, <<"x", "y">>},
        q \in {"", "q=1", "q=2"}, f \in {"", "top"},
        c \in BOOLEAN, w \in BOOLEAN}

\* a LinkManager on an empty database and two strings to normalize
InitNorm ==
    /\ today = 0
    /\ config = NoConfig
    /\ links = {}
    /\ runs = {}
    /\ apps = {}
    /\ seq = [links |-> 0, runs |-> 0]
    /\ \E u1 \in NormUrls, u2 \in NormUrls :
          last = [op |-> "strings", u1 |-> u1, u2 |-> u2]
    /\ backups = <<>>
    /\ proc = [p \in Procs |-> Idle]

\* _hash_url and _extract_domain applied to the two strings
Normalize ==
    /\ last.op = "strings"
    /\ last' = [op |-> "hash", u1 |-> last.u1, u2 |-> last.u2,
                h1 |-> hash_url(last.u1), h2 |-> hash_url(last.u2),
                d1 |-> extract_domain(Lower(last.u1)),
                d2 |-> extract_domain(Lower(last.u2))]
    /\ UNCHANGED <<today, config, links, runs, apps, seq>>
    /\ UNCHANGED tools

SpecNorm == InitNorm /\ [][Normalize]_vars

----------------------------------------------------------------------------
(* run_automation (neuron_automation.py), step by step, as process 1 *)

Auto == 1

\* successfully_opened_links, had the loop appended every link
OpenedLinksAll(links_to_open, failed) == links_to_open

\* successfully_opened_links: the links whose window.open raised nothing,
\* in the order of links_to_open
RECURSIVE OpenedUpTo(_, _, _)
OpenedUpTo(links_to_open, failed, n) ==
    IF n = 0 THEN <<>>
    ELSE IF n \in failed THEN OpenedUpTo(links_to_open, failed, n - 1)
    ELSE Append(OpenedUpTo(links_to_open, failed, n - 1), links_to_open[n])

OpenedLinks(links_to_open, failed) ==
    OpenedUpTo(links_to_open, failed, Len(links_to_open))

\* lines 665-689: the links are extracted and analyzed; the run ends when
\* none was found or none is to be opened
RunAnalyze ==
    \E raw_links \in Batches :
        /\ proc[Auto].pc = "idle"
        /\ seq.runs < MaxRuns
        /\ LET links_to_open ==
                   IF raw_links = <<>> THEN <<>>
                   ELSE analyze_newsletter_links(raw_links, links, config,
                                                 today).links_to_open
           IN  /\ proc' = [proc EXCEPT ![Auto] =
                              IF links_to_open = <<>> THEN Idle
                              ELSE [pc |-> "analyzed", raw_links |-> raw_links,
                                    links_to_open |-> links_to_open]]
               /\ last' = IF links_to_open = <<>>
                          THEN [op |-> "run_end", raw_links |-> raw_links,
                                opened |-> <<>>]
                          ELSE [op |-> "analyze"]
        /\ links' = AnalyzeWrites(links, raw_links, today)
        /\ UNCHANGED <<today, config, runs, apps, seq, backups>>

\* lines 696-710: the loop that opens the tabs; failed holds the positions
\* whose execute_script raised
RunOpen ==
    \E failed \in SUBSET (1..MaxLen) :
        /\ proc[Auto].pc = "analyzed"
        /\ failed \subseteq 1..Len(proc[Auto].links_to_open)
        /\ proc' = [proc EXCEPT ![Auto] =
                       [pc |-> "opened", raw_links |-> proc[Auto].raw_links,
                        links_to_open |-> proc[Auto].links_to_open,
                        failed |-> failed,
                        successfully_opened_links |->
                            OpenedLinks(proc[Auto].links_to_open, failed)]]
        /\ last' = [op |-> "open"]
        /\ UNCHANGED <<today, config, links, runs, apps, seq, backups>>

\* lines 712-716: record_opened_links is called when a link was opened
RunRecord ==
    /\ proc[Auto].pc = "opened"
    /\ IF proc[Auto].successfully_opened_links # <<>>
       THEN RecordStore(proc[Auto].successfully_opened_links)
       ELSE /\ last' = [op |-> "run_end", raw_links |-> proc[Auto].raw_links,
                        opened |-> <<>>]
            /\ UNCHANGED <<today, config, links, runs, apps, seq>>
    /\ proc' = [proc EXCEPT ![Auto] =
                   [pc |-> "idle", links_to_open |-> proc[Auto].links_to_open,
                    failed |-> proc[Auto].failed]]
    /\ UNCHANGED backups

\* the automation beside the operator's blacklist commands
NextRun ==
    \/ AdvanceDay
    \/ RunAnalyze
    \/ RunOpen
    \/ RunRecord
    \/ Blacklist
    \/ Unblacklist

SpecRun == Init /\ [][NextRun]_vars

----------------------------------------------------------------------------
(* perform_rewind (blacklist_rewind.py), statement by statement, as process *)
(* 2 beside the writers of process 1.  create_backup opens and closes its   *)
(* own connection; the SELECT runs before the connection of the UPDATE has  *)
(* begun a transaction; the UPDATE and the commit are one step.             *)

Tool == 2

\* lines 232-237: create_backup() if asked for, then cutoff_date
RwBackup ==
    \E days \in RewindDays, backup \in BOOLEAN, same_second \in BOOLEAN :
        /\ proc[Tool].pc = "idle"
        /\ backups' = IF backup
                      THEN WriteBackup(backups, RewindSnapshot(links, days, today),
                                       today, same_second)
                      ELSE backups
        /\ Len(backups') <= MaxBackups
        /\ proc' = [proc EXCEPT ![Tool] =
                        [pc |-> "backed_up", days |-> days, day |-> today,
                         with_backup |-> backup,
                         backup_file |-> IF backup THEN Len(backups')
                                         ELSE NoFile]]
        /\ last' = [op |-> "rewind_backup", days |-> days]
        /\ UNCHANGED <<today, config, links, runs, apps, seq>>

\* lines 243-253: the SELECT and restored_links
RwSelect ==
    /\ proc[Tool].pc = "backed_up"
    /\ proc' = [proc EXCEPT ![Tool] =
                    [pc |-> "selected", days |-> proc[Tool].days,
                     day |-> proc[Tool].day,
                     with_backup |-> proc[Tool].with_backup,
                     backup_file |-> proc[Tool].backup_file,
                     restored_links |->
                         restored_links(links, proc[Tool].days, proc[Tool].day)]]
    /\ last' = [op |-> "rewind_select", days |-> proc[Tool].days]
    /\ UNCHANGED <<today, config, links, runs, apps, seq, backups>>

\* lines 256-277: the UPDATE, its rowcount, the commit and the result
RwUpdate ==
    /\ proc[Tool].pc = "selected"
    /\ links' = perform_rewind(links, proc[Tool].days, proc[Tool].day)
    /\ last' = [op |-> "rewind", days |-> proc[Tool].days,
                with_backup |-> proc[Tool].with_backup,
                res |-> [success |-> TRUE,
                         cutoff_date |-> proc[Tool].day - proc[Tool].days,
                         days_rewound |-> proc[Tool].days,
                         restored_count |->
                             rewind_rowcount(links, proc[Tool].days,
                                             proc[Tool].day),
                         restored_links |-> proc[Tool].restored_links,
                         backup_file |-> proc[Tool].backup_file]]
    /\ proc' = [proc EXCEPT ![Tool] = Idle]
    /\ UNCHANGED <<today, config, runs, apps, seq, backups>>

NextRewindConc ==
    \/ AdvanceDay
    \/ RecordOpened
    \/ Blacklist
    \/ Sweep
    \/ RwBackup
    \/ RwSelect
    \/ RwUpdate

SpecRewindConc == Init /\ [][NextRewindConc]_vars

----------------------------------------------------------------------------
(* The command lines: main of blacklist_rewind.py and the rewind commands   *)
(* of main of neuron_automation.py.  One run of a main is one action; calls *)
(* lists the operations of BlacklistRewind that main called, in order.      *)

\* an option that was not given: the argparse default None
NoArg == -1

\* the DAYS given on a command line
CliDays == {1}

\* the most options on one command line
MaxOptions == 3

\* default=7 of --recent and of --recent-blacklisted
RecentDefault == 7

\* what the operator types at a prompt
Responses == {"y", "Y", "n"}

\* response.lower()
LowerResponse(response) == IF response = "Y" THEN "y" ELSE response

\* truth value of an int option in an if
Truthy(x) == x # NoArg /\ x # 0

\* the options of blacklist_rewind.py that main dispatches on
ToolOptions ==
    {"stats", "recent", "preview", "rewind", "backup", "restore", "no_backup",
     "yes"}

\* the namespace of parse_args for a command line with the options of given;
\* --recent is given as 0, --restore names the file of the backups directory
\* or, when there is none, a file that does not exist
ParseArgs(given) ==
    [stats |-> "stats" \in given,
     recent |-> IF "recent" \in given THEN 0 ELSE RecentDefault,
     preview |-> IF "preview" \in given THEN CHOOSE d \in CliDays : TRUE
                 ELSE NoArg,
     rewind |-> IF "rewind" \in given THEN CHOOSE d \in CliDays : TRUE
                ELSE NoArg,
     backup |-> "backup" \in given,
     restore |-> IF "restore" \in given THEN 1 ELSE NoArg,
     no_backup |-> "no_backup" \in given,
     yes |-> "yes" \in given]

ToolArgs ==
    {ParseArgs(given) :
        given \in {g \in SUBSET ToolOptions : Cardinality(g) <= MaxOptions}}

\* the if / elif chain of main
ToolCommand(args) ==
    IF args.stats THEN "stats"
    ELSE IF Truthy(args.recent) THEN "recent"
    ELSE IF args.preview # NoArg THEN "preview"
    ELSE IF args.rewind # NoArg THEN "rewind"
    ELSE IF args.backup THEN "backup"
    ELSE IF args.restore # NoArg THEN "restore"
    ELSE "help"

\* main reaches one of its two input() calls
Prompts(args, L, B, d) ==
    \/ /\ ToolCommand(args) = "rewind"
       /\ preview_rewind(L, args.rewind, d).restore_count # 0
       /\ ~args.yes
    \/ /\ ToolCommand(args) = "restore"
       /\ args.restore <= Len(B)
       /\ ~args.yes

\* main may reach a call that writes a backup file
WritesFile(args) ==
    \/ ToolCommand(args) = "backup"
    \/ ToolCommand(args) = "rewind" /\ ~args.no_backup

\* a main that called the operations of calls and changed nothing
Ran(calls, L, B, asked, exit) ==
    [calls |-> calls, links |-> L, backups |-> B, asked |-> asked, exit |-> exit]

\* main of blacklist_rewind.py on the store L and the backup files B
ToolRun(args, response, L, B, d, same_second) ==
    LET command == ToolCommand(args)
    IN  IF command = "stats" THEN Ran(<<"get_blacklist_statistics">>, L, B, FALSE, 0)
        ELSE IF command = "recent"
        THEN Ran(<<"list_recent_blacklists">>, L, B, FALSE, 0)
        ELSE IF command = "preview"
        THEN Ran(<<"preview_rewind">>, PreviewWrites(L, args.preview, d), B,
                 FALSE, 0)
        ELSE IF command = "rewind"
        THEN LET preview == preview_rewind(L, args.rewind, d)
             IN  IF preview.restore_count = 0
                 THEN Ran(<<"preview_rewind">>, L, B, FALSE, 0)
                 ELSE IF ~args.yes /\ LowerResponse(response) # "y"
                 THEN Ran(<<"preview_rewind">>, L, B, TRUE, 0)
                 ELSE [calls |-> <<"preview_rewind", "perform_rewind">>,
                       links |-> perform_rewind(L, args.rewind, d),
                       backups |->
                           IF ~args.no_backup
                           THEN WriteBackup(B, RewindSnapshot(L, args.rewind, d),
                                            d, same_second)
                           ELSE B,
                       asked |-> ~args.yes, exit |-> 0]
        ELSE IF command = "backup"
        THEN Ran(<<"create_backup">>, L,
                 WriteBackup(B, create_backup(L), d, same_second), FALSE, 0)
        ELSE IF command = "restore"
        THEN IF args.restore > Len(B) THEN Ran(<<>>, L, B, FALSE, 1)
             ELSE IF ~args.yes /\ LowerResponse(response) # "y"
             THEN Ran(<<>>, L, B, TRUE, 0)
             ELSE LET result == RestoreOutcome(L, B[args.restore].content)
                  IN  Ran(<<"restore_from_backup">>, result.links, B, ~args.yes,
                          IF result.raised THEN 1 ELSE 0)
        ELSE Ran(<<>>, L, B, FALSE, 0)

ToolMain ==
    \E args \in ToolArgs :
    \E response \in IF Prompts(args, links, backups, today) THEN Responses
                    ELSE {""} :
    \E same_second \in IF backups # <<>> /\ WritesFile(args) THEN BOOLEAN
                       ELSE {FALSE} :
    \E run \in {ToolRun(args, response, links, backups, today, same_second)} :
            /\ links' = run.links
            /\ backups' = run.backups
            /\ Len(backups') <= MaxBackups
            /\ last' = [op |-> "tool_main", args |-> args, calls |-> run.calls,
                        asked |-> run.asked,
                        response |-> IF run.asked THEN response ELSE "",
                        exit |-> run.exit]
            /\ UNCHANGED <<today, config, runs, apps, seq, proc>>

\* the rewind options of neuron_automation.py
AutoArgs ==
    [rewind_preview : {NoArg} \cup CliDays, rewind : {NoArg} \cup CliDays,
     backup_blacklist : BOOLEAN, recent_blacklisted : {RecentDefault, 5},
     no_backup : BOOLEAN]

\* the condition under which main runs the rewind commands and exits
\* instead of running the automation
HasRewindCommand(args) ==
    \/ Truthy(args.rewind_preview)
    \/ Truthy(args.rewind)
    \/ args.backup_blacklist
    \/ args.recent_blacklisted # RecentDefault

\* the rewind commands of main of neuron_automation.py: four ifs in sequence
AutoRun(args, L, B, d, same_second) ==
    LET calls1 == IF Truthy(args.rewind_preview) THEN <<"preview_rewind">>
                  ELSE <<>>
        rewinds == /\ Truthy(args.rewind)
                   /\ preview_rewind(L, args.rewind, d).restore_count # 0
        calls2 == IF ~Truthy(args.rewind) THEN calls1
                  ELSE IF rewinds
                  THEN calls1 \o <<"preview_rewind", "perform_rewind">>
                  ELSE Append(calls1, "preview_rewind")
        L2 == IF rewinds THEN perform_rewind(L, args.rewind, d) ELSE L
        B2 == IF rewinds /\ ~args.no_backup
              THEN WriteBackup(B, RewindSnapshot(L, args.rewind, d), d,
                               same_second)
              ELSE B
        calls3 == IF args.backup_blacklist THEN Append(calls2, "create_backup")
                  ELSE calls2
        B3 == IF args.backup_blacklist
              THEN WriteBackup(B2, create_backup(L2), d, same_second)
              ELSE B2
        calls4 == IF args.recent_blacklisted # RecentDefault
                  THEN Append(calls3, "list_recent_blacklists")
                  ELSE calls3
    IN  Ran(calls4, L2, B3, FALSE, 0)

AutomationMain ==
    \E args \in AutoArgs :
    \E same_second \in IF Truthy(args.rewind) \/ args.backup_blacklist
                       THEN BOOLEAN ELSE {FALSE} :
        /\ HasRewindCommand(args)
        /\ \E run \in {AutoRun(args, links, backups, today, same_second)} :
               /\ links' = run.links
               /\ backups' = run.backups
               /\ Len(backups') <= MaxBackups
               /\ last' = [op |-> "automation_main", args |-> args,
                           calls |-> run.calls, asked |-> run.asked,
                           response |-> "", exit |-> run.exit]
        /\ UNCHANGED <<today, config, runs, apps, seq, proc>>

NextCli ==
    \/ RecordOpened
    \/ Blacklist
    \/ ToolMain
    \/ AutomationMain

\* blacklist_rewind.py run where config.py is not importable: ACTIVE_CONFIG is
\* None
InitCli ==
    /\ today = 0
    /\ config = NoConfig
    /\ links = {}
    /\ runs = {}
    /\ apps = {}
    /\ seq = [links |-> 0, runs |-> 0]
    /\ last = [op |-> "init"]
    /\ backups = <<>>
    /\ proc = [p \in Procs |-> Idle]

SpecCli == InitCli /\ [][NextCli]_vars

\* the operations the automation and its command line perform
Next ==
    \/ AdvanceDay
    \/ Analyze
    \/ Record
    \/ Blacklist
    \/ Unblacklist

Spec == Init /\ [][Next]_vars

\* every public method of LinkManager, also those no caller uses
NextApi ==
    \/ Next
    \/ Process
    \/ Cleanup

SpecApi == Init /\ [][NextApi]_vars

----------------------------------------------------------------------------
(* record_opened_links of two processes on one database, statement by       *)
(* statement.  The variables links, runs and apps hold what is committed.   *)
(* The first writing statement of a transaction takes the write lock of the *)
(* database file and keeps it until the commit; a writing statement of      *)
(* another connection then waits, and raises "database is locked" when its  *)
(* timeout ends first.                                                      *)

\* the lists the two processes record: same hash under two spellings, a
\* second hash, a failing URL
ConcBatches == {<<U_a>>, <<U_a2>>, <<U_a, U_a2>>, <<U_a2, U_r>>, <<U_mal, U_a>>}

InCall(p) == proc[p].pc # "idle"

\* no connection holds the write lock
LockFree == \A p \in Procs : proc[p].pc # "writing"

\* lines 456-464: the call begins and its sweep commits
RecSweep(p) ==
    \E urls \in ConcBatches :
        /\ ~InCall(p)
        /\ AgerOn => LockFree
        /\ seq.runs + Cardinality({q \in Procs : InCall(q)}) < MaxRuns
        /\ links' = auto_blacklist_old_links(links, config, today)
        /\ proc' = [proc EXCEPT ![p] =
                        [pc |-> "swept", urls |-> urls, today |-> today,
                         aged |-> auto_blacklist_count(links, config, today),
                         began |-> seq.runs]]
        /\ last' = [op |-> "sweep",
                    res |-> auto_blacklist_count(links, config, today)]
        /\ UNCHANGED <<today, config, runs, apps, seq, backups>>

\* lines 466-476: INSERT INTO newsletter_runs opens the transaction
RecInsertRun(p) ==
    /\ proc[p].pc = "swept"
    /\ LockFree
    /\ proc' = [proc EXCEPT ![p] = [@ EXCEPT !.pc = "writing"]]
    /\ last' = [op |-> "insert_run"]
    /\ UNCHANGED <<today, config, links, runs, apps, seq, backups>>

\* lines 480-535: the loop over the URLs and the commit
RecCommit(p) ==
    /\ proc[p].pc = "writing"
    /\ LET c      == proc[p]
           run_id == seq.runs + 1
           S      == RecordLoop([links |-> links, seq |-> seq.links,
                                 apps |-> apps, count |-> 0],
                                c.urls, 1, run_id, c.today)
       IN  /\ links' = S.links
           /\ apps' = S.apps
           /\ runs' = runs \cup {RunRow(run_id, c.today, Len(c.urls), Len(c.urls))}
           /\ seq' = [links |-> S.seq, runs |-> run_id]
           /\ last' = [op |-> "record", urls |-> c.urls, run_id |-> run_id,
                       began |-> c.began,
                       res |-> [recorded_count |-> S.count,
                                auto_blacklisted_aged |-> c.aged]]
    /\ proc' = [proc EXCEPT ![p] = Idle]
    /\ UNCHANGED <<today, config, backups>>

\* the INSERT of line 470 finds the database locked until its timeout ends:
\* sqlite3.OperationalError leaves record_opened_links
RecBusy(p) ==
    /\ proc[p].pc = "swept"
    /\ ~LockFree
    /\ proc' = [proc EXCEPT ![p] = Idle]
    /\ last' = [op |-> "record", urls |-> proc[p].urls, raised |-> TRUE]
    /\ UNCHANGED <<today, config, links, runs, apps, seq, backups>>

NextConc ==
    \/ AdvanceDay
    \/ \E p \in Procs : RecSweep(p)
    \/ \E p \in Procs : RecInsertRun(p)
    \/ \E p \in Procs : RecCommit(p)
    \/ \E p \in Procs : RecBusy(p)

SpecConc == Init /\ [][NextConc]_vars

\* the link manager together with the rewind tool on the same database
NextRewind ==
    \/ AdvanceDay
    \/ RecordOpened
    \/ Blacklist
    \/ Unblacklist
    \/ Sweep
    \/ Cleanup
    \/ Preview
    \/ Backup
    \/ Rewind
    \/ Restore

\* the tool and the manager may be constructed without a configuration
InitRewind ==
    /\ today = 0
    /\ config \in Configs \cup {NoConfig}
    /\ links = {}
    /\ runs = {}
    /\ apps = {}
    /\ seq = [links |-> 0, runs |-> 0]
    /\ last = [op |-> "init"]
    /\ backups = <<>>
    /\ proc = [p \in Procs |-> Idle]

SpecRewind == InitRewind /\ [][NextRewind]_vars

\* the rewind tool restoring files of any origin
NextRestore ==
    \/ AdvanceDay
    \/ RecordOpened
    \/ Blacklist
    \/ Unblacklist
    \/ Backup
    \/ Rewind
    \/ Restore
    \/ RestoreFile

SpecRestore == Init /\ [][NextRestore]_vars

----------------------------------------------------------------------------
(* Properties of the Admission Analyzer.  The analyzer returns a value and   *)
(* writes nothing, so its result is stated for every input list in every     *)
(* reachable store.                                                          *)

Analysis(urls) == analyze_newsletter_links(urls, links, config, today)

Idx(s) == 1..Len(s)

\* the URL matches a configured domain or pattern rule
RuleMatches(u) ==
    \/ extract_domain(u) \in config.DOMAIN_BLACKLIST
    \/ \E p \in config.URL_PATTERN_BLACKLIST : GlobMatches(u, p)

\* the Link rows of a URL: by its hash when it has one
RowsOf(u) == IF HashFails(u) THEN {l \in links : l.url = u}
             ELSE {l \in links : l.url_hash = hash_url(u)}

\* C1: analyze_newsletter_links never mutates the store: links,
\* newsletter_runs and link_appearances (and the row counters) are the same
\* before and after every call, for every input list.
C1_NonMutation ==
    [][last'.op = "analyze" =>
          /\ links' = links
          /\ runs' = runs
          /\ apps' = apps
          /\ seq' = seq]_vars

\* an analyze call returned in a store that holds links, runs and appearances
C1_Witness ==
    /\ last.op = "analyze"
    /\ links # {}
    /\ runs # {}
    /\ apps # {}

\* C2: analyze deduplicates its input by url_hash: no two entries of
\* links_to_open have the same url_hash.
C2_Dedup ==
    \A urls \in Batches :
        LET open == Analysis(urls).links_to_open
        IN  \A i, j \in Idx(open) :
                i # j => hash_url(open[i]) # hash_url(open[j])

\* C3: a URL whose Link is blacklisted, or whose domain or text matches a
\* configured rule, is classified blocked by analyze and is absent from
\* links_to_open.
C3_ExcludedBlocked ==
    \A urls \in Batches :
        \A i \in Idx(urls) :
            (RuleMatches(urls[i]) \/ \E l \in RowsOf(urls[i]) : l.is_blacklisted)
            => /\ urls[i] \in Range(Analysis(urls).blacklisted_links)
               /\ urls[i] \notin Range(Analysis(urls).links_to_open)

C5_NewUntilRecorded ==
    [][/\ \A urls \in Batches :
              \A i \in Idx(urls) :
                  (~RuleMatches(urls[i]) /\ RowsOf(urls[i]) = {})
                  => /\ urls[i] \in Range(Analysis(urls).new_links)
                     /\ urls[i] \in Range(Analysis(urls).links_to_open)
       /\ \A l \in links' :
              (\A k \in links : k.url_hash # l.url_hash)
              => /\ last'.op = "record"
                 /\ \E i \in Idx(last'.urls) :
                        /\ ~HashFails(last'.urls[i])
                        /\ hash_url(last'.urls[i]) = l.url_hash]_vars

\* C6: links_to_open is exactly the input-order subsequence of the URLs
\* classified new or existing, and holds no URL classified blocked.
C6_AdmittedIsNewAndExisting ==
    \A urls \in Batches :
        LET r == Analysis(urls)
            passed(u) == u \in Range(r.new_links) \cup Range(r.existing_links)
        IN  /\ r.links_to_open = SelectSeq(urls, passed)
            /\ Range(r.blacklisted_links) \cap Range(r.links_to_open) = {}

\* an analyze call returned in a store where one list yields an admitted
\* existing URL after a blocked one
C6_Witness ==
    /\ last.op = "analyze"
    /\ \E urls \in Batches :
          LET r == Analysis(urls)
          IN  /\ Len(r.existing_links) = 1
              /\ Len(r.blacklisted_links) = 1
              /\ r.links_to_open = r.existing_links
              /\ urls[2] = r.existing_links[1]

----------------------------------------------------------------------------
(* Properties of the Run Recorder *)

\* the positions of the URLs that are processed without failure
OkIdx(urls) == {i \in Idx(urls) : ~HashFails(urls[i])}

HashesOf(urls) == {hash_url(urls[i]) : i \in OkIdx(urls)}

\* how many URLs of the list have the hash
Times(urls, h) == Cardinality({i \in OkIdx(urls) : hash_url(urls[i]) = h})

\* the first URL of the list with the hash
FirstUrl(urls, h) ==
    LET at == {i \in OkIdx(urls) : hash_url(urls[i]) = h}
    IN  urls[CHOOSE i \in at : \A j \in at : i <= j]

\* C7: record_opened_links is the only operation that inserts a row into
\* links or increments a seen_count.
C7_OnlyRecordGrowsLinks ==
    [][(\E l \in links' :
           \/ \A k \in links : k.id # l.id
           \/ \E k \in links : k.id = l.id /\ l.seen_count > k.seen_count)
       => last'.op = "record"]_vars

\* C8: the upsert step of record.  A hash of the input without a Link gets
\* one with seen_count 1 per occurrence, first_seen = last_seen = today and no
\* blacklist; a hash with a Link has seen_count grown by one per occurrence
\* and last_seen = today, its url, first_seen and blacklist fields as the
\* sweep left them; every other Link is as the sweep left it.
C8_Upsert ==
    [][(last'.op = "record" /\ last'.urls # <<>>) =>
          LET urls   == last'.urls
              before == auto_blacklist_old_links(links, config, today)
              fresh  == {h \in HashesOf(urls) : \A l \in before : l.url_hash # h}
          IN  /\ \A l \in before :
                    IF l.url_hash \in HashesOf(urls)
                    THEN [l EXCEPT !.seen_count = @ + Times(urls, l.url_hash),
                                   !.last_seen = today] \in links'
                    ELSE l \in links'
              /\ \A h \in fresh :
                    \E l \in links' :
                        /\ l.url_hash = h
                        /\ l.url = FirstUrl(urls, h)
                        /\ l.seen_count = Times(urls, h)
                        /\ l.first_seen = today
                        /\ l.last_seen = today
                        /\ ~l.is_blacklisted
                        /\ l.blacklisted_date = NullDate
                        /\ l.blacklist_reason = NullReason
              /\ Cardinality(links') = Cardinality(before) + Cardinality(fresh)]_vars

\* a record call inserted one Link and updated another that it left with the
\* first_seen and blacklist it had
C8_Witness ==
    /\ last.op = "record"
    /\ Len(last.urls) = 2
    /\ \E l, k \in links :
          /\ l.url_hash = hash_url(last.urls[1])
          /\ l.first_seen < today
          /\ l.last_seen = today
          /\ l.seen_count = 2
          /\ l.is_blacklisted
          /\ k.url_hash = hash_url(last.urls[2])
          /\ k.first_seen = today
          /\ k.seen_count = 1

\* C9: write isolation in record.  A URL whose processing fails leaves no
\* Link and no Appearance; every other URL of the list is recorded; the Run
\* row exists; recorded_count is the number of URLs processed without failure.
C9_WriteIsolation ==
    (last.op = "record" /\ last.urls # <<>>) =>
        LET urls == last.urls
            rid  == last.run_id
        IN  /\ \E r \in runs :
                  r.id = rid /\ r.run_date = today /\ r.links_found = Len(urls)
            /\ last.res.recorded_count = Cardinality(OkIdx(urls))
            /\ \A i \in Idx(urls) :
                  HashFails(urls[i]) =>
                      /\ \A l \in links : l.url # urls[i]
                      /\ \A a \in apps : a.run_id = rid => a.position # i
            /\ \A i \in OkIdx(urls) :
                  \E l \in links :
                      /\ l.url_hash = hash_url(urls[i])
                      /\ l.last_seen = today
                      /\ \E a \in apps : a.link_id = l.id /\ a.run_id = rid
            /\ \A a \in apps :
                  a.run_id = rid =>
                      \E l \in links :
                          l.id = a.link_id /\ l.url_hash \in HashesOf(urls)

\* a record call was given a failing URL followed by a good one
C9_Witness ==
    /\ last.op = "record"
    /\ Len(last.urls) = 2
    /\ HashFails(last.urls[1])
    /\ ~HashFails(last.urls[2])
    /\ last.res.recorded_count = 1
    /\ Cardinality({a \in apps : a.run_id = last.run_id}) = 1

\* C10: there is at most one Appearance row per (link_id, run_id); a record
\* call given two URLs with the same url_hash creates one Appearance for
\* that Link in the new Run and processes both URLs without failure.
C10_OneAppearance ==
    /\ \A a, b \in apps :
          (a.link_id = b.link_id /\ a.run_id = b.run_id) => a = b
    /\ (last.op = "record" /\ last.urls # <<>>) =>
          \A i, j \in OkIdx(last.urls) :
              (i < j /\ hash_url(last.urls[i]) = hash_url(last.urls[j])) =>
                  /\ \E l \in links :
                        /\ l.url_hash = hash_url(last.urls[i])
                        /\ Cardinality({a \in apps : a.link_id = l.id
                                                      /\ a.run_id = last.run_id}) = 1
                  /\ last.res.recorded_count = Cardinality(OkIdx(last.urls))

\* a record call was given two different URLs with the same url_hash
C10_Witness ==
    /\ last.op = "record"
    /\ Len(last.urls) = 2
    /\ last.urls[1] # last.urls[2]
    /\ OkIdx(last.urls) = {1, 2}
    /\ hash_url(last.urls[1]) = hash_url(last.urls[2])
    /\ last.res.recorded_count = 2

----------------------------------------------------------------------------
(* Properties of the Link fields *)

\* C12: for every Link, is_blacklisted holds exactly when blacklisted_date
\* is not null, and blacklist_reason is null exactly when the Link is not
\* blacklisted, after any sequence of record, blacklist, unblacklist, sweep,
\* rewind and restore.
C12_BlacklistFields ==
    \A l \in links :
        /\ l.is_blacklisted <=> l.blacklisted_date # NullDate
        /\ l.blacklist_reason = NullReason <=> ~l.is_blacklisted

\* a restore has set the blacklist fields of a Link from a snapshot taken on
\* an earlier blacklisting, beside a Link that is not blacklisted
C12_Witness ==
    /\ last.op = "restore"
    /\ ~last.raised
    /\ last.res.restored_count >= 1
    /\ \E l, k \in links :
          /\ l.is_blacklisted
          /\ l.blacklist_reason = "manual"
          /\ l.blacklisted_date < today
          /\ ~k.is_blacklisted

\* C13: seen_count is at least 1 for every Link and no operation (record,
\* blacklist, unblacklist, sweep, rewind, restore, cleanup) decreases it.
C13_SeenCount ==
    /\ [](\A l \in links : l.seen_count >= 1)
    /\ [][\A l \in links : \A k \in links' :
              k.id = l.id => k.seen_count >= l.seen_count]_vars

\* a Link recorded twice has gone through a rewind that cleared its blacklist
C13_Witness ==
    /\ last.op = "rewind"
    /\ last.res.restored_count >= 1
    /\ \E l \in links :
          /\ l.seen_count = 2
          /\ \E c \in last.res.restored_links : c.url = l.url

----------------------------------------------------------------------------
(* Properties of the Blacklist Manager *)

\* C14: blacklist and unblacklist of a URL whose url_hash has no Link row
\* return false, raise nothing and leave every Link as it was.
C14_UnknownHashNoop ==
    [][(last'.op \in {"blacklist", "unblacklist"} /\ RowsOf(last'.url) = {}) =>
          /\ ~last'.raised
          /\ last'.res = FALSE
          /\ links' = links]_vars

\* C15: on a known hash blacklist returns true and sets (is_blacklisted,
\* blacklisted_date, blacklist_reason) = (true, today, reason) on the
\* matching Link, unblacklist returns true and sets them to (false, null,
\* null); no other field and no other Link changes, and unblacklist after
\* the blacklist of a Link that was not blacklisted gives the Links back.
C15_BlacklistFrame ==
    [][(last'.op \in {"blacklist", "unblacklist"} /\ RowsOf(last'.url) # {}) =>
          LET h == hash_url(last'.url)
          IN  /\ ~last'.raised
              /\ last'.res = TRUE
              /\ runs' = runs /\ apps' = apps /\ seq' = seq
              /\ \A l \in links : l.url_hash # h => l \in links'
              /\ Cardinality(links') = Cardinality(links)
              /\ \A l \in links :
                    l.url_hash = h =>
                        IF last'.op = "blacklist"
                        THEN /\ [l EXCEPT !.is_blacklisted = TRUE,
                                          !.blacklisted_date = today,
                                          !.blacklist_reason = last'.reason]
                                    \in links'
                             /\ ~l.is_blacklisted =>
                                    unblacklist_url(links', last'.url) = links
                        ELSE [l EXCEPT !.is_blacklisted = FALSE,
                                       !.blacklisted_date = NullDate,
                                       !.blacklist_reason = NullReason]
                                 \in links']_vars

\* a Link seen on an earlier day was blacklisted beside another Link
C15_Witness ==
    /\ last.op = "blacklist"
    /\ ~last.raised
    /\ last.res = TRUE
    /\ Cardinality(links) = 2
    /\ \E l \in links :
          /\ l.url_hash = hash_url(last.url)
          /\ l.is_blacklisted
          /\ l.blacklisted_date = today
          /\ l.last_seen < today

----------------------------------------------------------------------------
(* Properties of the Auto-Ager *)

\* C16: the sweep blacklists exactly the Links that are not blacklisted and
\* have last_seen < today - AUTO_BLACKLIST_DAYS, with blacklisted_date =
\* today and blacklist_reason = auto_aged, and returns their number; every
\* other Link is unchanged; with AUTO_BLACKLIST_ENABLED false or without a
\* configuration nothing changes.
C16_SweepExact ==
    [][last'.op = "sweep" =>
          /\ runs' = runs /\ apps' = apps /\ seq' = seq /\ backups' = backups
          /\ IF AgerOn
             THEN /\ last'.res = Cardinality(Aged(links))
                  /\ Cardinality(links') = Cardinality(links)
                  /\ \A l \in links :
                        IF l \in Aged(links)
                        THEN [l EXCEPT !.is_blacklisted = TRUE,
                                       !.blacklisted_date = today,
                                       !.blacklist_reason = "auto_aged"] \in links'
                        ELSE l \in links'
             ELSE last'.res = 0 /\ links' = links]_vars

\* a sweep has blacklisted a Link and left a Link blacklisted by hand on an
\* earlier day as it was
C16_Witness ==
    /\ last.op = "sweep"
    /\ last.res = 1
    /\ \E l, k \in links :
          /\ l.blacklist_reason = "auto_aged"
          /\ l.blacklisted_date = today
          /\ k.blacklist_reason = "manual"
          /\ k.blacklisted_date < today

\* C17: a sweep right after a sweep on the same day changes no Link and
\* blacklists 0 Links; so does a second sweep from any state.
C17_SweepIdempotent ==
    /\ last.op = "sweep" =>
          /\ auto_blacklist_old_links(links, config, today) = links
          /\ auto_blacklist_count(links, config, today) = 0
    /\ LET once == auto_blacklist_old_links(links, config, today)
       IN  /\ auto_blacklist_old_links(once, config, today) = once
           /\ auto_blacklist_count(once, config, today) = 0

\* the second of two sweeps on one day: the first one had blacklisted a Link
C17_Witness ==
    /\ last.op = "sweep"
    /\ last.res = 0
    /\ AgerOn
    /\ \E l \in links :
          l.blacklist_reason = "auto_aged" /\ l.blacklisted_date = today

\* C18: with AUTO_BLACKLIST_ENABLED every call of record, for every input
\* list, runs the sweep: after the call no Link is left that the sweep was
\* to blacklist.
C18_RecordSweeps ==
    [][(last'.op = "record" /\ AgerOn) =>
          \A l \in Aged(links) :
              \E k \in links' :
                  /\ k.id = l.id
                  /\ k.is_blacklisted
                  /\ k.blacklist_reason = "auto_aged"]_vars

----------------------------------------------------------------------------
(* Properties of the Rewind Engine *)

\* C19: preview_rewind writes nothing: no Link, Run or Appearance row
\* changes and no snapshot file is written, however often it is called.
C19_PreviewReadOnly ==
    [][last'.op = "preview" =>
          /\ links' = links
          /\ runs' = runs
          /\ apps' = apps
          /\ seq' = seq
          /\ backups' = backups]_vars

\* a preview that found a Link to restore, with a snapshot file on disk
C19_Witness ==
    /\ last.op = "preview"
    /\ last.res.restore_count >= 1
    /\ backups # <<>>

\* the sum of the counts of a breakdown
RECURSIVE SumValues(_)
SumValues(f) ==
    IF DOMAIN f = {} THEN 0
    ELSE LET k == CHOOSE x \in DOMAIN f : TRUE
         IN  f[k] + SumValues([x \in DOMAIN f \ {k} |-> f[x]])

\* the day the test data is laid out from
TestToday == 14

TestLink(id, name, days_ago, reason) ==
    [LinkRow(id, Url("example.com", <<name>>, "", "", FALSE, FALSE),
             TestToday - days_ago)
        EXCEPT !.is_blacklisted = TRUE,
               !.blacklisted_date = TestToday - days_ago,
               !.blacklist_reason = reason]

\* create_test_data of test_rewind_functionality.py
create_test_data ==
    {TestLink(1, "recent-article-1", 1, "read"),
     TestLink(2, "recent-article-2", 1, "read"),
     TestLink(3, "recent-article-3", 2, "read"),
     TestLink(4, "recent-article-4", 2, "read"),
     TestLink(5, "medium-article-1", 7, "not_interested"),
     TestLink(6, "medium-article-2", 7, "not_interested"),
     TestLink(7, "old-article-1", 14, "read"),
     TestLink(8, "old-article-2", 14, "read")}

\* C20: preview_rewind(days) returns exactly the Links with is_blacklisted
\* and blacklisted_date >= today - days; restore_count is their number and
\* the counts of reason_breakdown and of domain_breakdown each sum to it.
\* On the test data preview(3), preview(7) and preview(20) find 4, 6 and 8.
C20_PreviewExact ==
    /\ last.op = "preview" =>
          LET sel == {l \in links : l.is_blacklisted
                                    /\ l.blacklisted_date >= today - last.days}
          IN  /\ {c.url : c \in last.res.links_to_restore} = {l.url : l \in sel}
              /\ last.res.restore_count = Cardinality(sel)
              /\ SumValues(last.res.reason_breakdown) = last.res.restore_count
              /\ SumValues(last.res.domain_breakdown) = last.res.restore_count
    /\ preview_rewind(create_test_data, 3, TestToday).restore_count = 4
    /\ preview_rewind(create_test_data, 7, TestToday).restore_count = 6
    /\ preview_rewind(create_test_data, 20, TestToday).restore_count = 8

\* preview(0) on a day with one Link blacklisted today and one blacklisted
\* the day before
C20_Witness ==
    /\ last.op = "preview"
    /\ last.days = 0
    /\ last.res.restore_count = 1
    /\ \E l, k \in links :
          /\ l.is_blacklisted /\ l.blacklisted_date = today
          /\ k.is_blacklisted /\ k.blacklisted_date < today

----------------------------------------------------------------------------
(* Properties of the Link identity *)

\* C11: there is at most one Link per url_hash: URLs that differ only in
\* letter case, surrounding whitespace or fragment are recorded on one Link,
\* in one list, in successive calls and in interleaved calls of two
\* processes.
C11_OneLinkPerHash ==
    \A l, k \in links :
        /\ l.url_hash = hash_url(l.url)
        /\ (l.url_hash = k.url_hash
            \/ (l.url.host = k.url.host /\ l.url.path = k.url.path
                /\ l.url.query = k.url.query))
           => l = k

\* a call that began before another call committed has recorded, under
\* another spelling, the URL of that call's Link
C11_Witness ==
    /\ last.op = "record"
    /\ "began" \in DOMAIN last
    /\ last.run_id > last.began + 1
    /\ Len(last.urls) = 1
    /\ \E l \in links :
          /\ l.url_hash = hash_url(last.urls[1])
          /\ l.url # last.urls[1]
          /\ l.seen_count = 2

----------------------------------------------------------------------------
(* Properties of perform_rewind and of the snapshots *)

\* C21: after perform_rewind(days) a Link is blacklisted exactly when it was
\* blacklisted before the call with blacklisted_date < today - days; every
\* Link the cutoff selects has (is_blacklisted, blacklisted_date,
\* blacklist_reason) = (false, null, null); restored_count is the number of
\* Links cleared; no other field of a Link and no Run or Appearance row
\* changes.  On the test data rewind(7) clears 6 Links and leaves the two
\* blacklisted 14 days ago.
C21_RewindExact ==
    /\ [][last'.op = "rewind" =>
            LET sel == {l \in links : l.is_blacklisted
                                      /\ l.blacklisted_date >= today - last'.days}
            IN  /\ runs' = runs /\ apps' = apps /\ seq' = seq
                /\ Cardinality(links') = Cardinality(links)
                /\ \A l \in links :
                      IF l \in sel
                      THEN [l EXCEPT !.is_blacklisted = FALSE,
                                     !.blacklisted_date = NullDate,
                                     !.blacklist_reason = NullReason] \in links'
                      ELSE l \in links'
                /\ \A l \in links : \A k \in links' :
                      k.id = l.id =>
                          (k.is_blacklisted <=>
                              (l.is_blacklisted
                               /\ l.blacklisted_date < today - last'.days))
                /\ last'.res.restored_count = Cardinality(sel)
                /\ last'.res.restored_count =
                      Cardinality({l \in links : l.is_blacklisted})
                      - Cardinality({k \in links' : k.is_blacklisted})]_vars
    /\ [](LET after == perform_rewind(create_test_data, 7, TestToday)
          IN  /\ Cardinality(RewindSelected(create_test_data, 7, TestToday)) = 6
              /\ {l.id : l \in {k \in after : k.is_blacklisted}} = {7, 8})

\* a rewind cleared a Link blacklisted today and left blacklisted a Link
\* blacklisted the day before, in a store with runs and appearances
C21_Witness ==
    /\ last.op = "rewind"
    /\ last.days = 0
    /\ last.res.restored_count = 1
    /\ runs # {}
    /\ apps # {}
    /\ \E l, k \in links :
          /\ ~l.is_blacklisted
          /\ \E c \in last.res.restored_links : c.url = l.url
          /\ k.is_blacklisted
          /\ k.blacklisted_date < today

\* C22: perform_rewind(days, create_backup=true) writes the snapshot before
\* it clears a blacklist field: the file it returns holds an entry, with the
\* date and reason of before the call, for every Link that was blacklisted
\* when the call started, hence for every Link the call clears; with
\* create_backup=false no file is written and backup_file is null.
C22_BackupBeforeClear ==
    [][last'.op = "rewind" =>
          IF last'.with_backup
          THEN /\ last'.res.backup_file \in 1..Len(backups')
               /\ LET snap == backups'[last'.res.backup_file].content
                      was  == {l \in links : l.is_blacklisted}
                  IN  /\ Range(snap.blacklisted_links) =
                            {[url_hash |-> l.url_hash,
                              blacklisted_date |-> l.blacklisted_date,
                              blacklist_reason |-> l.blacklist_reason] : l \in was}
                      /\ snap.total_blacklisted = Cardinality(was)
                      /\ \A l \in links : \A k \in links' :
                            (k.id = l.id /\ l.is_blacklisted /\ ~k.is_blacklisted)
                            => \E e \in Range(snap.blacklisted_links) :
                                  e.url_hash = l.url_hash
          ELSE /\ backups' = backups
               /\ last'.res.backup_file = NoFile]_vars

\* a rewind with backup cleared one Link and left another blacklisted; its
\* snapshot lists both
C22_Witness ==
    /\ last.op = "rewind"
    /\ last.with_backup
    /\ last.res.restored_count = 1
    /\ last.res.backup_file = Len(backups)
    /\ backups[Len(backups)].content.total_blacklisted = 2
    /\ Cardinality({l \in links : l.is_blacklisted}) = 1

\* the Links as they were before the rewind that returned res
BeforeRewind(L, res) ==
    {IF \E c \in res.restored_links : c.url = l.url
     THEN LET c == CHOOSE x \in res.restored_links : x.url = l.url
          IN  [l EXCEPT !.is_blacklisted = TRUE,
                        !.blacklisted_date = c.blacklisted_date,
                        !.blacklist_reason = c.reason]
     ELSE l : l \in L}

\* C23: create_backup() in a store S, then perform_rewind(days), then
\* restore_from_backup of that file gives every Link the is_blacklisted,
\* blacklisted_date and blacklist_reason it has in S, and restored_count is
\* the number of Links blacklisted in S: for every reachable S and every
\* days, in the behaviours where a restore follows a rewind of a store whose
\* snapshot is on file, and on the test data with rewind(10).
C23_RoundTrip ==
    /\ [](\A days \in 0..(MaxDay + 1) :
             LET snap  == create_backup(links)
                 mid   == perform_rewind(links, days, today)
                 final == restore_from_backup(mid, snap)
             IN  /\ final = links
                 /\ restored_count(mid, snap) =
                       Cardinality({l \in links : l.is_blacklisted}))
    /\ [][(last.op = "rewind" /\ last'.op = "restore" /\ ~last'.raised
           /\ backups[last'.file].content =
                 create_backup(BeforeRewind(links, last.res))) =>
             /\ links' = BeforeRewind(links, last.res)
             /\ last'.res.restored_count =
                   Cardinality({l \in BeforeRewind(links, last.res) :
                                   l.is_blacklisted})]_vars
    /\ [](LET snap  == create_backup(create_test_data)
              mid   == perform_rewind(create_test_data, 10, TestToday)
          IN  /\ snap.total_blacklisted = 8
              /\ Cardinality({l \in mid : l.is_blacklisted}) = 2
              /\ restore_from_backup(mid, snap) = create_test_data)

\* a restore brought back, from the snapshot of two blacklisted Links, a
\* Link blacklisted on an earlier day and a Link blacklisted today
C23_Witness ==
    /\ last.op = "restore"
    /\ ~last.raised
    /\ last.res.restored_count = 2
    /\ create_backup(links) = backups[last.file].content
    /\ \E l, k \in links :
          /\ l.is_blacklisted /\ l.blacklisted_date < today
          /\ k.is_blacklisted /\ k.blacklisted_date = today

----------------------------------------------------------------------------
(* Properties of restore_from_backup *)

\* the entries of the file a restore was given
EntriesOf(call) == BlacklistedLinksOf(call.content)

\* the file parses and each of its entries has the three fields
WellFormed(content) ==
    /\ ParsesAsJson(content)
    /\ \A i \in Idx(BlacklistedLinksOf(content)) :
          HasFields(BlacklistedLinksOf(content)[i])

\* C24: restore_from_backup of a well-formed snapshot succeeds also when
\* entries name hashes the store does not hold: restored_count is the number
\* of entries whose url_hash has a Link, total_in_backup the number of
\* entries, and the other entries insert no Link row.
C24_SkippedEntries ==
    [][(last'.op = "restore" /\ "content" \in DOMAIN last'
        /\ WellFormed(last'.content)) =>
          LET entries == EntriesOf(last')
              known   == {i \in Idx(entries) :
                             \E l \in links : l.url_hash = entries[i].url_hash}
          IN  /\ ~last'.raised
              /\ last'.res.success
              /\ last'.res.restored_count = Cardinality(known)
              /\ last'.res.total_in_backup = Len(entries)
              /\ {l.id : l \in links'} = {l.id : l \in links}
              /\ {l.url_hash : l \in links'} = {l.url_hash : l \in links}
              /\ Cardinality(links') = Cardinality(links)
              /\ seq' = seq]_vars

\* a restore of a snapshot of two entries found the Link of one of them and
\* no Link for the other
C24_Witness ==
    /\ last.op = "restore"
    /\ ~last.raised
    /\ last.res.total_in_backup = 2
    /\ last.res.restored_count = 1
    /\ \E i \in Idx(EntriesOf(last)) :
          \A l \in links : l.url_hash # EntriesOf(last)[i].url_hash
    /\ \E l \in links : l.is_blacklisted /\ l.blacklisted_date < today
    /\ \E l \in links : ~l.is_blacklisted

\* C25: restore_from_backup is a merge.  It changes only the three blacklist
\* fields of the Links whose url_hash is in the snapshot, to blacklisted with
\* the date and reason of the snapshot; it clears the blacklist of no Link,
\* so a Link blacklisted after the snapshot was taken stays blacklisted; it
\* changes no seen_count, first_seen or last_seen, no Run and no Appearance;
\* applying the snapshot again changes nothing.
C25_RestoreMerges ==
    [][(last'.op = "restore" /\ ~last'.raised) =>
          LET entries == EntriesOf(last')
              hashes  == {entries[i].url_hash : i \in Idx(entries)}
          IN  /\ runs' = runs /\ apps' = apps /\ seq' = seq
              /\ Cardinality(links') = Cardinality(links)
              /\ \A l \in links :
                    IF l.url_hash \in hashes
                    THEN \E i \in Idx(entries) :
                            /\ entries[i].url_hash = l.url_hash
                            /\ [l EXCEPT !.is_blacklisted = TRUE,
                                         !.blacklisted_date =
                                             entries[i].blacklisted_date,
                                         !.blacklist_reason =
                                             entries[i].blacklist_reason]
                                   \in links'
                    ELSE l \in links'
              /\ \A l \in links : \A k \in links' :
                    k.id = l.id =>
                        /\ l.is_blacklisted => k.is_blacklisted
                        /\ k.seen_count = l.seen_count
                        /\ k.first_seen = l.first_seen
                        /\ k.last_seen = l.last_seen
              /\ restore_from_backup(links', last'.content) = links']_vars

\* a restore put back the blacklist of a Link from a snapshot of an earlier
\* day and left a Link blacklisted since then, which the snapshot does not
\* list, blacklisted
C25_Witness ==
    /\ last.op = "restore"
    /\ ~last.raised
    /\ last.file # NoFile
    /\ last.res.restored_count = 1
    /\ \E l, k \in links :
          /\ l.is_blacklisted
          /\ l.blacklisted_date < today
          /\ \E i \in Idx(EntriesOf(last)) :
                EntriesOf(last)[i].url_hash = l.url_hash
          /\ k.is_blacklisted
          /\ k.blacklisted_date = today
          /\ \A i \in Idx(EntriesOf(last)) :
                EntriesOf(last)[i].url_hash # k.url_hash

\* C26: restore_from_backup of a missing file, of a file that does not
\* parse, or of a snapshot with an entry that lacks url_hash,
\* blacklisted_date or blacklist_reason raises and leaves the store as it
\* was: no entry is applied, those before the malformed one included.
C26_RestoreAllOrNothing ==
    [][(last'.op = "restore"
        /\ ("content" \notin DOMAIN last' \/ ~WellFormed(last'.content))) =>
          /\ last'.raised
          /\ links' = links
          /\ runs' = runs
          /\ apps' = apps
          /\ seq' = seq]_vars

\* a restore raised on the second entry of a snapshot whose first entry
\* names a Link that is not blacklisted
C26_Witness ==
    /\ last.op = "restore"
    /\ last.raised
    /\ "content" \in DOMAIN last
    /\ Len(EntriesOf(last)) = 2
    /\ HasFields(EntriesOf(last)[1])
    /\ ~HasFields(EntriesOf(last)[2])
    /\ \E l \in links :
          /\ l.url_hash = EntriesOf(last)[1].url_hash
          /\ ~l.is_blacklisted

----------------------------------------------------------------------------
(* Properties of the normalizer *)

\* the two strings have the same scheme, host and path
SameButQuery(u1, u2) ==
    u1.scheme = u2.scheme /\ u1.host = u2.host /\ u1.path = u2.path

\* C27: _hash_url gives two URLs the same hash when they differ only in
\* letter case, surrounding whitespace or fragment, and different hashes
\* when their queries differ and scheme, host and path are the same.
C27_NormalizerDeterminism ==
    last.op = "hash" =>
        /\ (SameButQuery(last.u1, last.u2) /\ last.u1.query = last.u2.query)
           => last.h1 = last.h2
        /\ (SameButQuery(last.u1, last.u2) /\ last.u1.query # last.u2.query)
           => last.h1 # last.h2

\* the normalizer was given a URL and the same URL in upper case, within
\* whitespace and with a fragment, both with a query
C27_Witness ==
    /\ last.op = "hash"
    /\ last.u1.query = "q=1"
    /\ last.u2 = [last.u1 EXCEPT !.caps = TRUE, !.pad = TRUE, !.frag = "top"]
    /\ last.u1 # last.u2
    /\ last.h1 = last.h2

\* C28: the normalizer never fails: for every input string, one that the URL
\* parser rejects included, it returns a hash and a domain, so no blacklist
\* or unblacklist call raises and every URL given to record is normalized
\* and recorded.
C28_NormalizerTotal ==
    /\ last.op \in {"blacklist", "unblacklist"} => ~last.raised
    /\ (last.op = "record" /\ last.urls # <<>>) =>
          last.res.recorded_count = Len(last.urls)

----------------------------------------------------------------------------
(* Properties of the transactions *)

\* C29: each mutating operation applies its changes in one transaction, so
\* the changes the Auto-Ager makes in a record call become visible only
\* together with that call's Run row: whoever reads the database finds, for
\* every Link blacklisted as auto_aged, the Run of the day it was blacklisted.
C29_OneTransaction ==
    \A l \in links :
        l.blacklist_reason = "auto_aged" =>
            \E r \in runs : r.run_date = l.blacklisted_date

----------------------------------------------------------------------------
(* Properties of the snapshot files *)

\* C30: a snapshot file is never modified once written: every file keeps its
\* content through every later operation, and each create_backup, also the
\* one of a perform_rewind and also one within the second of the previous
\* backup, writes a file of its own.
C30_SnapshotImmutable ==
    [][/\ Len(backups') >= Len(backups)
       /\ \A i \in 1..Len(backups) : backups'[i] = backups[i]
       /\ (last'.op = "backup" \/ (last'.op = "rewind" /\ last'.with_backup))
          => Len(backups') = Len(backups) + 1]_vars

----------------------------------------------------------------------------
(* Properties of the automation run *)

\* C31: in the automation run record is called only after the open step,
\* with exactly the links that analyze admitted and whose open raised
\* nothing, in their order; it is not called when no link was opened or when
\* analyze admitted none, and nothing else of the run writes a row.
C31_RecordAfterOpen ==
    [][/\ (proc[Auto].pc = "idle" /\ proc'[Auto].pc = "analyzed") =>
             proc'[Auto].links_to_open =
                 Analysis(proc'[Auto].raw_links).links_to_open
       /\ last'.op = "record" =>
             LET to_open == proc[Auto].links_to_open
                 ok      == Idx(to_open) \ proc[Auto].failed
             IN  /\ proc[Auto].pc = "opened"
                 /\ last'.urls # <<>>
                 /\ Len(last'.urls) = Cardinality(ok)
                 /\ \A i \in ok :
                       last'.urls[Cardinality({j \in ok : j <= i})] = to_open[i]
       /\ (runs' # runs \/ apps' # apps
           \/ \E l \in links' : \A k \in links : k.id # l.id)
          => last'.op = "record"
       /\ last'.op = "run_end" =>
             /\ links' = links /\ runs' = runs /\ apps' = apps /\ seq' = seq
             /\ \/ proc[Auto].pc = "idle"
                \/ proc[Auto].failed = Idx(proc[Auto].links_to_open)]_vars

\* a run recorded the second of two admitted links, the open of the first
\* having raised
C31_Witness ==
    /\ last.op = "record"
    /\ proc[Auto].pc = "idle"
    /\ "failed" \in DOMAIN proc[Auto]
    /\ proc[Auto].failed = {1}
    /\ Len(proc[Auto].links_to_open) = 2
    /\ last.urls = <<proc[Auto].links_to_open[2]>>
    /\ \A l \in links : l.url # proc[Auto].links_to_open[1]

----------------------------------------------------------------------------
(* Properties of preview followed by rewind *)

\* C32: perform_rewind(days) right after preview_rewind(days), with no
\* commit of another writer and no change of day between them, restores
\* exactly the Links the preview listed: restored_count = restore_count and
\* the two sets of URLs are equal; a second perform_rewind(days) right after
\* restores 0 Links and changes no row.
C32_PreviewThenRewind ==
    [][/\ (last.op = "preview" /\ last'.op = "rewind"
           /\ last'.days = last.days) =>
             /\ last'.res.restored_count = last.res.restore_count
             /\ {c.url : c \in last'.res.restored_links} =
                   {c.url : c \in last.res.links_to_restore}
             /\ \A l \in links :
                   (\E c \in last.res.links_to_restore : c.url = l.url)
                   <=> (l.is_blacklisted
                        /\ \E k \in links' : k.id = l.id /\ ~k.is_blacklisted)
       /\ (last.op = "rewind" /\ last'.op = "rewind"
           /\ last'.days = last.days) =>
             /\ last'.res.restored_count = 0
             /\ last'.res.restored_links = {}
             /\ links' = links /\ runs' = runs /\ apps' = apps
             /\ seq' = seq]_vars

\* a rewind restored the one Link that the preview of the store before it
\* lists, and the same rewind again would restore none
C32_Witness ==
    /\ last.op = "rewind"
    /\ last.res.restored_count = 1
    /\ preview_rewind(BeforeRewind(links, last.res), last.days,
                      today).restore_count = 1
    /\ rewind_rowcount(links, last.days, today) = 0
    /\ \E l \in links : l.is_blacklisted

----------------------------------------------------------------------------
(* Properties of perform_rewind beside other writers *)

\* the Links whose blacklist the step from the store L to the store M cleared
ClearedBy(L, M) ==
    {l \in L : l.is_blacklisted
               /\ \E k \in M : k.id = l.id /\ ~k.is_blacklisted}

\* C33: every Link whose blacklist perform_rewind(days, create_backup=true)
\* clears has an entry in the snapshot this call wrote, whatever another
\* process blacklists or sweeps while the call runs.
C33_ClearedIsBackedUp ==
    [][(proc[Tool].pc = "selected" /\ proc'[Tool].pc = "idle"
        /\ proc[Tool].with_backup) =>
          \A l \in ClearedBy(links, links') :
              \E e \in Range(backups'[last'.res.backup_file]
                                 .content.blacklisted_links) :
                  e.url_hash = l.url_hash]_vars

\* C34: the result of perform_rewind lists in restored_links exactly the
\* Links whose blacklist fields the call cleared, and restored_count is the
\* length of restored_links, whatever other writers commit while it runs.
C34_ResultConsistent ==
    [][(proc[Tool].pc = "selected" /\ proc'[Tool].pc = "idle") =>
          /\ {c.url : c \in last'.res.restored_links} =
                {l.url : l \in ClearedBy(links, links')}
          /\ last'.res.restored_count =
                Cardinality(last'.res.restored_links)]_vars

----------------------------------------------------------------------------
(* Properties of record on Links that are or become blacklisted *)

\* C35: record leaves the blacklist state of an already blacklisted Link
\* alone.  A Link that is blacklisted when record is called with its URL
\* (for instance blacklisted by the operator between analyze and record) has
\* after the call the same is_blacklisted, blacklisted_date and
\* blacklist_reason, a seen_count grown by one per occurrence of the URL, and
\* last_seen = today.
C35_RecordKeepsBlacklist ==
    [][(last'.op = "record" /\ last'.urls # <<>>) =>
          \A l \in links :
              (l.is_blacklisted /\ l.url_hash \in HashesOf(last'.urls)) =>
                  \E k \in links' :
                      /\ k.id = l.id
                      /\ k.is_blacklisted
                      /\ k.blacklisted_date = l.blacklisted_date
                      /\ k.blacklist_reason = l.blacklist_reason
                      /\ k.seen_count > l.seen_count
                      /\ k.seen_count =
                            l.seen_count + Times(last'.urls, l.url_hash)
                      /\ k.last_seen = today]_vars

\* the second run recorded a Link of an earlier day that the operator had
\* blacklisted the same day, after the run's analyze had admitted its URL
C35_Witness ==
    /\ last.op = "record"
    /\ last.run_id = 2
    /\ proc[Auto].pc = "idle"
    /\ today = 1
    /\ \E l \in links :
          /\ l.url_hash \in HashesOf(last.urls)
          /\ l.is_blacklisted
          /\ l.blacklist_reason = "manual"
          /\ l.blacklisted_date = 1
          /\ l.first_seen = 0
          /\ l.seen_count = 2
          /\ l.last_seen = 1

\* C36: a Link that a record call has just recorded is not blacklisted by
\* that call.  Every Link that is not blacklisted before record(urls) and
\* whose URL is in urls is not blacklisted when the call returns, and so is
\* every Link the call inserts; also with the Auto-Ager enabled and a
\* previous last_seen older than AUTO_BLACKLIST_DAYS.
C36_RecordedNotBlacklisted ==
    [][(last'.op = "record" /\ last'.urls # <<>>) =>
          /\ \A l \in links :
                (~l.is_blacklisted /\ l.url_hash \in HashesOf(last'.urls)) =>
                    \E k \in links' : k.id = l.id /\ ~k.is_blacklisted
          /\ \A k \in links' :
                (\A l \in links : l.id # k.id) => ~k.is_blacklisted]_vars

----------------------------------------------------------------------------
(* Properties of the counters of record *)

\* C37: for every record(urls) call the returned recorded_count is the number
\* of Appearance rows created for the new Run, which is the number of
\* distinct Links (by url_hash) recorded in the call, and the opened_links
\* counter of the Run row is recorded_count.
C37_RecordedCount ==
    [][(last'.op = "record" /\ last'.urls # <<>>) =>
          LET n == last'.res.recorded_count
          IN  /\ n = Cardinality({a \in apps' : a.run_id = last'.run_id})
              /\ n = Cardinality(HashesOf(last'.urls))
              /\ \E r \in runs' :
                    r.id = last'.run_id /\ r.opened_links = n]_vars

----------------------------------------------------------------------------
(* Properties of link_appearances *)

\* C38: referential integrity of appearances.  In every reachable state,
\* after any sequence of record and cleanup_old_data calls, every Appearance
\* row references a Link row and a Run row that exist in the store.
C38_AppearanceReferences ==
    \A a \in apps :
        /\ \E l \in links : l.id = a.link_id
        /\ \E r \in runs : r.id = a.run_id

----------------------------------------------------------------------------
(* Properties of the command lines *)

\* how often main called the operation
CountOf(calls, name) == Cardinality({i \in DOMAIN calls : calls[i] = name})

\* the command line gives the options of given and no other
Gives(args, given) == args = ParseArgs(given)

\* the operator confirmed: --yes, or the answer y at the prompt
Confirmed(call) ==
    \/ "yes" \in DOMAIN call.args /\ call.args.yes
    \/ call.asked /\ LowerResponse(call.response) = "y"

\* C39: command dispatch of blacklist_rewind.py.  A command line that gives
\* exactly one of --preview DAYS, --rewind DAYS (confirmed), --backup and
\* --restore FILE (confirmed) and no other option executes preview_rewind,
\* perform_rewind, create_backup or restore_from_backup exactly once (for
\* --rewind when there is a Link to restore, for --restore when the file
\* exists).
C39_Dispatch ==
    [][last'.op = "tool_main" =>
          /\ Gives(last'.args, {"preview"}) =>
                CountOf(last'.calls, "preview_rewind") = 1
          /\ (/\ \/ Gives(last'.args, {"rewind", "yes"})
                 \/ Gives(last'.args, {"rewind"})
              /\ preview_rewind(links, last'.args.rewind, today).restore_count # 0
              /\ last'.asked => LowerResponse(last'.response) = "y") =>
                CountOf(last'.calls, "perform_rewind") = 1
          /\ Gives(last'.args, {"backup"}) =>
                CountOf(last'.calls, "create_backup") = 1
          /\ (/\ \/ Gives(last'.args, {"restore", "yes"})
                 \/ Gives(last'.args, {"restore"})
              /\ last'.args.restore <= Len(backups)
              /\ last'.asked => LowerResponse(last'.response) = "y") =>
                CountOf(last'.calls, "restore_from_backup") = 1]_vars

\* C40: the preview/confirm protocol.  On every command line of either main,
\* perform_rewind and restore_from_backup are executed only after the
\* operator confirmed (the answer y, or --yes); a declined confirmation, and
\* a --rewind whose preview finds 0 Links on a command line that asks for no
\* backup, leave the store unchanged and write no snapshot.
C40_ConfirmProtocol ==
    [][last'.op \in {"tool_main", "automation_main"} =>
          /\ (\/ CountOf(last'.calls, "perform_rewind") > 0
              \/ CountOf(last'.calls, "restore_from_backup") > 0) =>
                Confirmed(last')
          /\ (last'.asked /\ ~Confirmed(last')) =>
                links' = links /\ backups' = backups
          /\ (/\ Truthy(last'.args.rewind)
              /\ preview_rewind(links, last'.args.rewind, today).restore_count = 0
              /\ CountOf(last'.calls, "create_backup") = 0
              /\ CountOf(last'.calls, "restore_from_backup") = 0) =>
                links' = links /\ backups' = backups]_vars

====
